---- MODULE Spec2Model ----
(***************************************************************************)
(* A model of gpmf-rs: relative timestamps and their arithmetic, the       *)
(* concatenation of the GPMF streams of the clips of a recording session,  *)
(* and the session builder that walks a directory, pairs high and low      *)
(* resolution clips on their fingerprint, groups them on MUID or GUMI and  *)
(* sorts every session on the time of the first frame.                     *)
(***************************************************************************)
EXTENDS Integers, Sequences, FiniteSets, TLC

VARIABLES
    ts_self,      \* Timestamp::add: the receiver
    ts_other,     \* Timestamp::add: the argument
    ts_result,    \* Timestamp::add: the returned timestamp, None before the call
    clips,        \* GoProSession::gpmf: per clip of the session, the durations of its GPMF samples
    devcs,        \* GoProSession::gpmf: number of DEVC streams the device logs per sample
    gpmf_ret,     \* GoProSession::gpmf: the returned value, None before the call returns
    dir,               \* sessions_from_path: the clips recorded under dir, indexed by fingerprint
    gopro_in_session,  \* sessions_from_path: the descriptor of the anchor video, None without one
    continue_on_error, \* sessions_from_path: the flag of that name
    verify_gpmf,       \* sessions_from_path: the flag of that name
    hash2gopro,        \* sessions_from_path: fingerprint -> descriptor, None where absent
    met,               \* history: paths the walk has accepted as GoPro files
    kept,              \* history: paths that passed the anchor filter and were inserted
    sessions_ret,      \* sessions_from_path: the returned value, None while walking
    merge_self,        \* GoProFile::merge: the receiver, before the call
    merge_other,       \* GoProFile::merge: the argument
    merge_ret,         \* GoProFile::merge: result and receiver after the call, None before
    walk_log,          \* history: the entries the walk of sessions_from_path has handled
    track,        \* Gpmf::from_mp4*: the samples of the GPMF track of the MP4
    debug,        \* Gpmf::from_mp4: the flag of that name
    parsed,       \* Gpmf::from_mp4: per sample the result of its parallel task, None before
    finished,     \* history: the samples in the order their task or thread finished
    mp4_ret,      \* Gpmf::from_mp4*: the returned value, None before the call returns
    spawned,      \* Gpmf::from_mp4_mpsc: number of samples a thread was spawned for
    channel,      \* Gpmf::from_mp4_mpsc: the messages sent and not yet received
    rx_streams,   \* Gpmf::from_mp4_mpsc: streams, the list the receive loop extends
    rx_count,     \* Gpmf::from_mp4_mpsc: iterations of the receive loop done
    fn_args,      \* a call of a function without side effects: its arguments
    fn_ret,       \* the value that call returned, None before the call
    sessions_prev,  \* sessions_from_path: what the call before this one returned
    par_hash2gopro, \* sessions_from_path_par: fingerprint -> descriptor, None where absent
    par_ret         \* sessions_from_path_par: the returned sessions, None before

tsVars   == <<ts_self, ts_other, ts_result>>
gpmfVars == <<clips, devcs, gpmf_ret>>
walkVars == <<dir, gopro_in_session, continue_on_error, verify_gpmf,
              hash2gopro, met, kept, sessions_ret>>
mergeVars == <<merge_self, merge_other, merge_ret>>
logVars == <<walk_log>>
mp4Vars == <<track, debug, parsed, finished, mp4_ret>>
mpscVars == <<spawned, channel, rx_streams, rx_count>>
fnVars == <<fn_args, fn_ret>>
prevVars == <<sessions_prev>>
parVars == <<par_hash2gopro, par_ret>>
vars     == <<ts_self, ts_other, ts_result, clips, devcs, gpmf_ret,
              dir, gopro_in_session, continue_on_error, verify_gpmf,
              hash2gopro, met, kept, sessions_ret,
              merge_self, merge_other, merge_ret, walk_log,
              track, debug, parsed, finished, mp4_ret,
              spawned, channel, rx_streams, rx_count, fn_args, fn_ret,
              sessions_prev, par_hash2gopro, par_ret>>

\* Option::None
None == [tag |-> "None"]
\* Result::Err
Err == [tag |-> "Err"]
\* Option::Some
Some(x) == [tag |-> "Some", val |-> x]
\* Result::Ok
Ok(x) == [tag |-> "Ok", val |-> x]
\* Result::Err(err)
ErrOf(err) == [tag |-> "Err", err |-> err]

(***************************************************************************)
(* Bounds of the model.                                                    *)
(***************************************************************************)
\* largest duration of one GPMF sample
MaxDur == 2
\* numbers of GPMF samples in one clip
SampleCounts == {1, 2}
\* most clips in one session
MaxClips == 3
\* numbers of DEVC streams in one sample (the Karma drone logs two)
DevcCounts == {1, 2}

\* most directory entries of a walk whose handling is logged
MaxLog == 3

RECURSIVE SumSeq(_)
SumSeq(s) == IF s = <<>> THEN 0 ELSE Head(s) + SumSeq(Tail(s))

RECURSIVE Flatten(_)
Flatten(ss) == IF ss = <<>> THEN <<>> ELSE Head(ss) \o Flatten(Tail(ss))

\* all sequences over S with a length in L
SeqsOf(S, L) == UNION {[1..n -> S] : n \in L}

(***************************************************************************)
(* Timestamp (gpmf/timestamp.rs)                                           *)
(***************************************************************************)
Timestamp(r, d) == [relative |-> r, duration |-> d]

\* Timestamp::add with the duration of `other` left out
add_no_duration(self, other) ==
    [self EXCEPT !.relative = self.relative + other.relative]

\* Timestamp::add: only `relative` changes, `..self.to_owned()` keeps the rest
add(self, other) ==
    [self EXCEPT !.relative = self.relative + other.relative + other.duration]

\* the timestamps Timestamp::add is applied to
TimestampArgs == {Timestamp(r, d) : r \in -1..MaxDur, d \in -1..MaxDur}

InitTimestamp ==
    /\ ts_self \in TimestampArgs
    /\ ts_other \in TimestampArgs
    /\ ts_result = None

\* a.add(b)
CallAdd ==
    /\ ts_result = None
    /\ ts_result' = add(ts_self, ts_other)
    /\ UNCHANGED <<ts_self, ts_other>>

\* the timestamp variables of a specification that does not use them
IdleTimestamp ==
    /\ ts_self = None
    /\ ts_other = None
    /\ ts_result = None

(***************************************************************************)
(* Gpmf (gpmf/gpmf.rs) and GoProSession::gpmf (gopro/session.rs)           *)
(***************************************************************************)
\* Timestamp::from(&Sample) for sample k of a track with the sample
\* durations durs: the sample's start in the track and its duration
SampleTime(durs, k) == Timestamp(SumSeq(SubSeq(durs, 1, k - 1)), durs[k])

\* a parsed stream; `id` stands for its content: clip, sample, position in the sample
Stream(c, k, n, t) == [id |-> <<c, k, n>>, time |-> t]

\* Gpmf::from_mp4 of clip c: the streams of every sample, in sample order,
\* each with the time of its sample (Stream::with_time)
from_mp4(c, durs, n) ==
    [streams |-> Flatten([k \in 1..Len(durs) |->
                    [i \in 1..n |-> Stream(c, k, i, SampleTime(durs, k))]]),
     source  |-> <<c>>]

\* Gpmf::default
GpmfDefault == [streams |-> <<>>, source |-> <<>>]

\* Gpmf::last_timestamp that reads the first stream instead of the last
last_timestamp_of_first(g) ==
    IF g.streams = <<>> THEN None ELSE g.streams[1].time

\* Gpmf::last, Gpmf::last_timestamp
last_timestamp(g) ==
    IF g.streams = <<>> THEN None ELSE g.streams[Len(g.streams)].time

\* Gpmf::first, Gpmf::first_timestamp
first_timestamp(g) ==
    IF g.streams = <<>> THEN None ELSE g.streams[1].time

\* Gpmf::offset_time that offsets the first stream only
offset_time_head_only(g, time) ==
    [g EXCEPT !.streams =
        [i \in 1..Len(g.streams) |->
            IF g.streams[i].time = None \/ i > 1 THEN g.streams[i]
            ELSE [g.streams[i] EXCEPT !.time = add(g.streams[i].time, time)]]]

\* Gpmf::offset_time: devc.time.map(|t| t.add(time))
offset_time(g, time) ==
    [g EXCEPT !.streams =
        [i \in 1..Len(g.streams) |->
            IF g.streams[i].time = None THEN g.streams[i]
            ELSE [g.streams[i] EXCEPT !.time = add(g.streams[i].time, time)]]]

\* Gpmf::merge_mut that appends without offsetting
merge_mut_no_offset(self, other) ==
    [streams |-> self.streams \o other.streams,
     source  |-> self.source \o other.source]

\* Gpmf::merge_mut: offset `other` by the last timestamp of `self`, then append
merge_mut(self, other) ==
    LET ts == last_timestamp(self)
        g  == IF ts # None THEN offset_time(other, ts) ELSE other
    IN  [streams |-> self.streams \o g.streams,
         source  |-> self.source \o g.source]

\* GoProFile::gpmf of clip c of the session: Gpmf::new(path, false)
file_gpmf(c) == from_mp4(c, clips[c], devcs)

ClipSet == SeqsOf(0..MaxDur, SampleCounts)

InitGpmf ==
    /\ clips \in SeqsOf(ClipSet, 1..MaxClips)
    /\ devcs \in DevcCounts
    /\ gpmf_ret = None

\* `for file in self.iter() { gpmf.merge_mut(&mut file.gpmf()?) }` from clip i
\* on, with the local `gpmf` as it stands before clip i
RECURSIVE gpmf_loop(_, _)
gpmf_loop(acc, i) ==
    IF i > Len(clips) THEN acc
    ELSE gpmf_loop(merge_mut(acc, file_gpmf(i)), i + 1)

\* GoProSession::gpmf when every file.gpmf() succeeds: Ok(gpmf)
GpmfCall ==
    /\ gpmf_ret = None
    /\ gpmf_ret' = gpmf_loop(GpmfDefault, 1)
    /\ UNCHANGED <<clips, devcs>>

\* GoProSession::gpmf when file.gpmf()? fails for a clip: the error is returned
GpmfCallErr ==
    /\ gpmf_ret = None
    /\ gpmf_ret' = Err
    /\ UNCHANGED <<clips, devcs>>

IdleGpmf ==
    /\ clips = <<>>
    /\ devcs = 0
    /\ gpmf_ret = None

(***************************************************************************)
(* Gpmf::from_mp4: the samples of one MP4 parsed by parallel tasks         *)
(***************************************************************************)
\* the positions of the streams in one sample
StreamPositions == {1, 2}
\* the numbers of samples in the track
TrackLens == {1, 2, 3}

\* a sample: its duration, and how many of its streams parse before an atom
\* that claims to extend past the buffer (all of them in a sound sample)
Samples == [duration : 0..MaxDur, good : {0} \cup StreamPositions]

Sound(sample) == sample.good = Cardinality(StreamPositions)

RECURSIVE TrackDurs(_)
TrackDurs(k) ==
    IF k > Len(track) THEN <<>> ELSE <<track[k].duration>> \o TrackDurs(k + 1)

\* Timestamp::from(&Sample) for sample k of the track
sample_time(k) == SampleTime(TrackDurs(1), k)

\* Stream::new on sample k: the streams of the sample, without time; on a
\* payload past the buffer an error, or with debug the streams parsed so far
Stream_new(k, sample, dbg) ==
    LET all == <<Stream(1, k, 1, None), Stream(1, k, 2, None)>>
    IN  IF Sound(sample) THEN Ok(all)
        ELSE IF dbg THEN Ok(SubSeq(all, 1, sample.good))
        ELSE ErrOf("Truncated")

\* Stream::with_time
with_time(stream, ts) == [stream EXCEPT !.time = ts]

RECURSIVE with_time_all(_, _)
with_time_all(streams, ts) ==
    IF streams = <<>> THEN <<>>
    ELSE <<with_time(Head(streams), ts)>> \o with_time_all(Tail(streams), ts)

parse_sample_drops_error(k) ==
    LET new == Stream_new(k, track[k], debug)
    IN  IF new.tag = "Err" THEN Ok(<<>>) ELSE Ok(with_time_all(new.val, sample_time(k)))

\* the closure from_mp4 maps over the samples, on sample k
parse_sample(k) ==
    LET new == Stream_new(k, track[k], debug)
    IN  IF new.tag = "Err" THEN new ELSE Ok(with_time_all(new.val, sample_time(k)))

RECURSIVE collect_as_finished(_, _)
collect_as_finished(slots, done) ==
    IF done = <<>> THEN <<>>
    ELSE slots[Head(done)].val \o collect_as_finished(slots, Tail(done))

\* collect of the indexed parallel iterator, then flatten: the vectors of the
\* samples in sample order, whatever order done they were produced in
RECURSIVE collect_indexed(_, _)
collect_indexed(slots, done) ==
    IF slots = <<>> THEN <<>>
    ELSE Head(slots).val \o collect_indexed(Tail(slots), done)

InitTrack(debugs) ==
    /\ track \in SeqsOf(Samples, TrackLens)
    /\ debug \in debugs
    /\ parsed = [k \in DOMAIN track |-> None]
    /\ finished = <<>>
    /\ mp4_ret = None

\* track.samples().collect() fails on an MP4 read error
Mp4ReadErr ==
    /\ mp4_ret = None
    /\ finished = <<>>
    /\ mp4_ret' = ErrOf("Mp4Error")
    /\ UNCHANGED <<track, debug, parsed, finished>>

\* one parallel task of from_mp4 runs the closure on a sample
Mp4ParseSample ==
    /\ mp4_ret = None
    /\ \E k \in DOMAIN track :
          /\ parsed[k] = None
          /\ parsed' = [parsed EXCEPT ![k] = parse_sample(k)]
          /\ finished' = Append(finished, k)
    /\ UNCHANGED <<track, debug, mp4_ret>>

\* collect::<Result<..>>()? of from_mp4 on an error of a task
Mp4CollectErr ==
    /\ mp4_ret = None
    /\ \E k \in DOMAIN track :
          /\ parsed[k].tag = "Err"
          /\ mp4_ret' = parsed[k]
    /\ UNCHANGED <<track, debug, parsed, finished>>

\* collect, flatten and return of from_mp4 when every task succeeded
Mp4Collect ==
    /\ mp4_ret = None
    /\ \A k \in DOMAIN track : parsed[k].tag = "Ok"
    /\ mp4_ret' = Ok([streams |-> collect_indexed(parsed, finished), source |-> <<1>>])
    /\ UNCHANGED <<track, debug, parsed, finished>>

IdleMp4 ==
    /\ track = <<>>
    /\ debug = FALSE
    /\ parsed = <<>>
    /\ finished = <<>>
    /\ mp4_ret = None

IdleMpsc ==
    /\ spawned = 0
    /\ channel = <<>>
    /\ rx_streams = <<>>
    /\ rx_count = 0

(***************************************************************************)
(* Gpmf::from_mp4_mpsc: one thread per sample, sending over a channel      *)
(***************************************************************************)
\* the threads that were spawned and have neither sent nor panicked
Running == {k \in 1..spawned : \A i \in DOMAIN finished : finished[i] # k}

\* the spawn loop reads the next sample and spawns its thread
MpscSpawn ==
    /\ mp4_ret = None
    /\ spawned < Len(track)
    /\ spawned' = spawned + 1
    /\ UNCHANGED <<mp4Vars, channel, rx_streams, rx_count>>

\* the spawn loop fails to read the next sample: result? returns the error
MpscReadErr ==
    /\ mp4_ret = None
    /\ spawned < Len(track)
    /\ mp4_ret' = ErrOf("Mp4Error")
    /\ UNCHANGED <<track, debug, parsed, finished, mpscVars>>

\* a thread parses its sample and sends the streams
MpscThreadSend ==
    /\ mp4_ret = None
    /\ \E k \in Running :
          LET new == Stream_new(k, track[k], FALSE)
          IN  /\ new.tag = "Ok"
              /\ channel' = Append(channel, new.val)
              /\ finished' = Append(finished, k)
    /\ UNCHANGED <<track, debug, parsed, mp4_ret, spawned, rx_streams, rx_count>>

\* a thread fails to parse its sample: expect panics, nothing is sent
MpscThreadPanic ==
    /\ mp4_ret = None
    /\ \E k \in Running :
          /\ Stream_new(k, track[k], FALSE).tag = "Err"
          /\ finished' = Append(finished, k)
    /\ UNCHANGED <<track, debug, parsed, mp4_ret, mpscVars>>

\* one iteration of the receive loop: rx.recv() returns the oldest message
MpscRecv ==
    /\ mp4_ret = None
    /\ spawned = Len(track)
    /\ rx_count < Len(track)
    /\ channel # <<>>
    /\ rx_streams' = rx_streams \o Head(channel)
    /\ channel' = Tail(channel)
    /\ rx_count' = rx_count + 1
    /\ UNCHANGED <<mp4Vars, spawned>>

\* the receive loop is over: the streams are returned
MpscReturn ==
    /\ mp4_ret = None
    /\ spawned = Len(track)
    /\ rx_count = Len(track)
    /\ mp4_ret' = Ok([streams |-> rx_streams, source |-> <<1>>])
    /\ UNCHANGED <<track, debug, parsed, finished, mpscVars>>

(***************************************************************************)
(* Gps (content_types/gps/gps.rs)                                          *)
(***************************************************************************)
\* f64 values: finite ones, f64::MAX, +infinity and NaN
F64(x) == [kind |-> "finite", val |-> x]
F64_MAX == [kind |-> "max"]
F64_INFINITY == [kind |-> "inf"]
F64_NAN == [kind |-> "nan"]
F64_NEG_INFINITY == [kind |-> "-inf"]

\* a / b on f64 for whole numbers a and b that divide without rest: by zero
\* it is NaN for a zero a, and the infinity of the sign of a otherwise
f64_div(a, b) ==
    IF b # 0 THEN F64(a \div b)
    ELSE IF a = 0 THEN F64_NAN
    ELSE IF a > 0 THEN F64_INFINITY ELSE F64_NEG_INFINITY

\* a <= b on f64: FALSE when either is NaN; every finite value of the model
\* is below f64::MAX, which is below +infinity, and above -infinity
f64_le(a, b) ==
    /\ a.kind # "nan"
    /\ b.kind # "nan"
    /\ CASE a.kind = "finite" ->
                b.kind # "-inf" /\ (b.kind = "finite" => a.val <= b.val)
         [] a.kind = "max" -> b.kind \in {"max", "inf"}
         [] a.kind = "inf" -> b.kind = "inf"
         [] a.kind = "-inf" -> TRUE

\* Option::unwrap_or
unwrap_or(opt, default) == IF opt = None THEN default ELSE opt.val

\* the values of GoProPoint.fix: no lock, 2D lock, 3D lock
FixValues == {0, 2, 3}
\* the values of GoProPoint.dop: raw value over scale, with a scale of zero
\* +infinity or NaN
DopValues == {F64(0), F64(1), F64_INFINITY, F64_NAN}
\* the numbers of points in a log
GpsLens == {0, 1, 2, 3}

\* the logs: sequences of points, n the position of the point when logged
GpsLogs(lens, fixes, dops) ==
    UNION {{[i \in 1..len |-> [n |-> i, fix |-> f[i], dop |-> d[i]]] :
                f \in [1..len -> fixes], d \in [1..len -> dops]} : len \in lens}

\* the closure of prune and prune_mut
prune_keeps(p, fix, dop) == f64_le(p.dop, dop) /\ p.fix >= fix

\* Iterator::filter .. collect, Vec::retain
RECURSIVE retain(_, _, _)
retain(points, fix, dop) ==
    IF points = <<>> THEN <<>>
    ELSE (IF prune_keeps(Head(points), fix, dop) THEN <<Head(points)>> ELSE <<>>)
            \o retain(Tail(points), fix, dop)

\* Gps::prune
prune(self, min_fix, max_dop) ==
    retain(self, unwrap_or(min_fix, 0), unwrap_or(max_dop, F64_MAX))

\* Gps::prune_mut: self after the call, and the returned count
prune_mut(self, min_fix, max_dop) ==
    LET retained == retain(self, unwrap_or(min_fix, 0), unwrap_or(max_dop, F64_MAX))
    IN  [self |-> retained, removed |-> Len(self) - Len(retained)]

InitPrune ==
    /\ fn_args \in [self : GpsLogs(GpsLens, FixValues, DopValues),
                     min_fix : {None} \cup {Some(f) : f \in FixValues},
                     max_dop : {None} \cup {Some(d) : d \in {F64(0), F64(1), F64_INFINITY}}]
    /\ fn_ret = None

CallPrune ==
    /\ fn_ret = None
    /\ fn_ret' = [fn |-> "prune",
                  val |-> prune(fn_args.self, fn_args.min_fix, fn_args.max_dop)]
    /\ UNCHANGED fn_args

CallPruneMut ==
    /\ fn_ret = None
    /\ fn_ret' = [fn |-> "prune_mut",
                  val |-> prune_mut(fn_args.self, fn_args.min_fix, fn_args.max_dop)]
    /\ UNCHANGED fn_args

IdleFn ==
    /\ fn_args = None
    /\ fn_ret = None

\* the values of GoProPoint.datetime, in milliseconds
Datetimes == {10, 20}
\* the values of GoProPoint.time, the time since the start of the clip
RelativeTimes == {0, 3}

\* the logs of points with a datetime and a relative time
GpsTimedLogs(lens, fixes, datetimes, times) ==
    UNION {{[i \in 1..len |-> [fix |-> f[i], datetime |-> dt[i], time |-> t[i]]] :
                f \in [1..len -> fixes], dt \in [1..len -> datetimes],
                t \in [1..len -> times]} : len \in lens}

\* Iterator::find with the closure |p| p.fix >= min_fix
RECURSIVE find_fix(_, _)
find_fix(points, min_fix) ==
    IF points = <<>> THEN None
    ELSE IF Head(points).fix >= min_fix THEN Some(Head(points))
    ELSE find_fix(Tail(points), min_fix)

\* Gps::t0 with the default of a 3D lock
t0_default_3d_lock(self, min_gps_fix) ==
    LET first_point == find_fix(self, unwrap_or(min_gps_fix, 3))
    IN  IF first_point = None THEN None
        ELSE Some(first_point.val.datetime - first_point.val.time)

\* Gps::t0
t0(self, min_gps_fix) ==
    LET first_point == find_fix(self, unwrap_or(min_gps_fix, 2))
    IN  IF first_point = None THEN None
        ELSE Some(first_point.val.datetime - first_point.val.time)

InitT0 ==
    /\ fn_args \in [self : GpsTimedLogs(GpsLens, FixValues, Datetimes, RelativeTimes),
                     min_gps_fix : {None} \cup {Some(f) : f \in FixValues}]
    /\ fn_ret = None

CallT0 ==
    /\ fn_ret = None
    /\ fn_ret' = [fn |-> "t0", val |-> t0(fn_args.self, fn_args.min_gps_fix)]
    /\ UNCHANGED fn_args

\* Gps::t0 called again on the log without its first point
CallT0Tail ==
    /\ fn_ret # None
    /\ fn_ret.fn = "t0"
    /\ fn_args.self # <<>>
    /\ fn_ret' = [fn |-> "t0_tail",
                  val |-> t0(Tail(fn_args.self), fn_args.min_gps_fix),
                  whole |-> fn_ret.val]
    /\ UNCHANGED fn_args

(***************************************************************************)
(* GoProPoint::from_gps9 (content_types/gps.rs)                            *)
(***************************************************************************)
\* (a / b).round() for a >= 0, b > 0: to the nearest integer, a half away
\* from zero
round(a, b) == (2 * a + b) \div (2 * b)

\* (a / b) as u32 for a >= 0, b > 0: the fraction is cut off
trunc(a, b) == a \div b

\* the numbers of rows of a GPS9 array
RowCounts == {1, 2, 3, 4, 10}
\* the raw latitudes of a row and the scales
RawValues == {2, 4}
Scales == {1, 2}
\* the time of the enclosing stream
StreamTimes == [relative : {0, 7, 1000}, duration : {0, 1, 2, 3, 5, 10, 1000}]

\* GoProPoint::from_raw on a row: the scaled latitude and the time it is given
from_raw(gps_slice, scale_slice, devc_timestamp) ==
    [latitude |-> f64_div(gps_slice, scale_slice), time |-> devc_timestamp]

\* the closure with casts that cut the fraction off
row_time_truncating(time, i, len) ==
    IF time = None THEN None
    ELSE Some([relative |-> trunc(time.val.relative * len + i * time.val.duration, len),
               duration |-> trunc(time.val.duration, len)])

\* Option::map of the closure that computes the time of row i (from 0); the
\* values of the model are far below the largest u32, where the casts keep
\* the value
row_time(time, i, len) ==
    IF time = None THEN None
    ELSE Some([relative |-> round(time.val.relative * len + i * time.val.duration, len),
               duration |-> round(time.val.duration, len)])

\* GoProPoint::from_gps9 with casts that cut the fraction off
from_gps9_truncating(devc_stream) ==
    IF devc_stream.gps9 = None \/ devc_stream.scal = None THEN None
    ELSE LET gps9 == devc_stream.gps9.val
             len == Len(gps9)
         IN  Some([n \in 1..len |->
                    from_raw(gps9[n], devc_stream.scal.val,
                             row_time_truncating(devc_stream.time, n - 1, len))])

\* GoProPoint::from_gps9
from_gps9(devc_stream) ==
    IF devc_stream.gps9 = None \/ devc_stream.scal = None THEN None
    ELSE LET gps9 == devc_stream.gps9.val
             len == Len(gps9)
         IN  Some([n \in 1..len |->
                    from_raw(gps9[n], devc_stream.scal.val,
                             row_time(devc_stream.time, n - 1, len))])

InitGps9 ==
    /\ fn_args \in [gps9 : {None} \cup {Some(rows) :
                                rows \in UNION {[1..len -> RawValues] : len \in RowCounts}},
                     scal : {None} \cup {Some(s) : s \in Scales},
                     time : {None} \cup {Some(t) : t \in StreamTimes}]
    /\ fn_ret = None

CallFromGps9 ==
    /\ fn_ret = None
    /\ fn_ret' = [fn |-> "from_gps9", val |-> from_gps9(fn_args)]
    /\ UNCHANGED fn_args

(***************************************************************************)
(* SensorField and SensorData (content_types/sensor)                       *)
(***************************************************************************)
\* the variants of Orientation that name an order of the axes
AxisOrders == {"XYZ", "XZY", "YZX", "YXZ", "ZXY", "ZYX"}

\* Orientation::from on the token of ORIN: the variant of that name, Invalid
\* for any other token
Orientation_from(token) == IF token \in AxisOrders THEN token ELSE "Invalid"

\* the tokens of ORIN: the orders of the axes and two that are none
OrinTokens == AxisOrders \cup {"XXY", ""}
\* the raw values of a row, the numbers of values of a row, the scales and
\* the numbers of rows of a batch
RawAxisValues == {-2, 2, 4}
RowLens == {2, 3, 4}
SensorScales == {1, 2}
BatchLens == {0, 1, 2}

\* slice::get(i)? for i from 0: None leaves SensorField::new
get(xyz, i) == IF i < Len(xyz) THEN Some(xyz[i + 1]) ELSE None

\* the three values taken in the order a, b, c and divided by the scale
field_of(xyz, a, b, c, scale) ==
    IF get(xyz, a) = None \/ get(xyz, b) = None \/ get(xyz, c) = None THEN None
    ELSE Some([x |-> f64_div(get(xyz, a).val, scale),
               y |-> f64_div(get(xyz, b).val, scale),
               z |-> f64_div(get(xyz, c).val, scale)])

\* SensorField::new with the arm of ZXY that of YZX
SensorField_new_zxy_as_yzx(xyz, scale, orientation) ==
    CASE orientation = "XYZ" -> field_of(xyz, 0, 1, 2, scale)
      [] orientation = "XZY" -> field_of(xyz, 0, 2, 1, scale)
      [] orientation = "YZX" -> field_of(xyz, 2, 0, 1, scale)
      [] orientation = "YXZ" -> field_of(xyz, 1, 0, 2, scale)
      [] orientation = "ZXY" -> field_of(xyz, 2, 0, 1, scale)
      [] orientation = "ZYX" -> field_of(xyz, 2, 1, 0, scale)
      [] orientation = "Invalid" -> None

\* SensorField::new
SensorField_new(xyz, scale, orientation) ==
    CASE orientation = "XYZ" -> field_of(xyz, 0, 1, 2, scale)
      [] orientation = "XZY" -> field_of(xyz, 0, 2, 1, scale)
      [] orientation = "YZX" -> field_of(xyz, 2, 0, 1, scale)
      [] orientation = "YXZ" -> field_of(xyz, 1, 0, 2, scale)
      [] orientation = "ZXY" -> field_of(xyz, 1, 2, 0, scale)
      [] orientation = "ZYX" -> field_of(xyz, 2, 1, 0, scale)
      [] orientation = "Invalid" -> None

\* SensorData::new, the fields: filter_map of SensorField::new over the rows
RECURSIVE sensor_fields(_, _, _)
sensor_fields(rows, scale, orientation) ==
    IF rows = <<>> THEN <<>>
    ELSE LET field == SensorField_new(Head(rows), scale, orientation)
         IN  (IF field = None THEN <<>> ELSE <<field.val>>)
                \o sensor_fields(Tail(rows), scale, orientation)

\* SensorData::new, the orientation: that of ORIN, XZY without ORIN
orientation_of(orientation_str) ==
    IF orientation_str = None THEN "XZY" ELSE Orientation_from(orientation_str.val)

InitSensor ==
    /\ fn_args \in [rows : UNION {[1..n -> UNION {[1..len -> RawAxisValues] :
                                                        len \in RowLens}] :
                                     n \in BatchLens},
                     scale : SensorScales,
                     orin : {None} \cup {Some(token) : token \in OrinTokens}]
    /\ fn_ret = None

CallSensorData ==
    /\ fn_ret = None
    /\ fn_ret' = [fn |-> "SensorData::new",
                  orientation |-> orientation_of(fn_args.orin),
                  fields |-> sensor_fields(fn_args.rows, fn_args.scale,
                                           orientation_of(fn_args.orin))]
    /\ UNCHANGED fn_args

(***************************************************************************)
(* The extractors on one STRM: from_gps5, from_gps9, SensorData::new       *)
(***************************************************************************)
\* the entries of SCAL, and SCAL as the list to_f64 returns
ScalEntries == {0, 1, 2}
ScalLists == {<<>>} \cup {<<s>> : s \in ScalEntries}
\* the raw latitudes of GPS5 and the numbers of rows of a cluster
Gps5Values == {-4, 0, 4}
Gps5Lens == {1, 2}
\* the rows of ACCL
AcclRows == {<<2, 4, -2>>, <<0, 2, 4>>, <<2, 4>>}

\* a STRM without children, as the extractors see it
StreamDefault ==
    [gps5 |-> None, gps9 |-> None, accl |-> None, scal |-> None, gpsu |-> None,
     tsmp |-> None, orin |-> None, time |-> None]

\* the STRMs with a GPS5 cluster, one value (the latitude) per row
Gps5Streams ==
    {[StreamDefault EXCEPT !.gps5 = Some(rows), !.scal = scal, !.gpsu = gpsu] :
        rows \in UNION {[1..len -> Gps5Values] : len \in Gps5Lens},
        scal \in {None} \cup {Some(l) : l \in ScalLists},
        gpsu \in {None, Some(10)}}

\* the STRMs with GPS9 rows, one value (the latitude) and one scale per row
Gps9Streams ==
    {[StreamDefault EXCEPT !.gps9 = Some(rows), !.scal = scal, !.time = time] :
        rows \in UNION {[1..len -> RawValues] : len \in Gps5Lens},
        scal \in {None} \cup {Some(s) : s \in ScalEntries},
        time \in {None, Some([relative |-> 7, duration |-> 5])}}

\* the STRMs with ACCL rows
SensorStreams ==
    {[StreamDefault EXCEPT !.accl = Some(rows), !.scal = scal, !.tsmp = tsmp,
                           !.orin = orin] :
        rows \in UNION {[1..len -> AcclRows] : len \in Gps5Lens},
        scal \in {None} \cup {Some(l) : l \in ScalLists},
        tsmp \in {None, Some(2)},
        orin \in {None, Some("XYZ"), Some("ZXY"), Some("")}}

\* GoProPoint::from_gps5: the point of the cluster, its latitude the mean of
\* the rows over the scale; an entry SCAL does not have stays 1.0
from_gps5(devc_stream) ==
    IF devc_stream.gps5 = None THEN None
    ELSE LET gps5 == devc_stream.gps5.val
             len == Len(gps5)
             lat_sum == SumSeq(gps5)
         IN  IF devc_stream.scal = None THEN None
             ELSE LET scale == devc_stream.scal.val
                      lat_scl == IF Len(scale) >= 1 THEN scale[1] ELSE 1
                  IN  IF devc_stream.gpsu = None THEN None
                      ELSE Some([latitude |-> f64_div(lat_sum \div len, lat_scl),
                                 datetime |-> devc_stream.gpsu.val,
                                 time |-> devc_stream.time])

\* SensorData::new for the accelerometer
SensorData_new(devc_stream) ==
    IF devc_stream.scal = None THEN None
    ELSE IF devc_stream.scal.val = <<>> THEN None
    ELSE LET scale == devc_stream.scal.val[1]
             orientation == orientation_of(devc_stream.orin)
         IN  IF devc_stream.tsmp = None THEN None
             ELSE IF devc_stream.accl = None THEN None
             ELSE Some([total |-> devc_stream.tsmp.val,
                        orientation |-> orientation,
                        fields |-> sensor_fields(devc_stream.accl.val, scale,
                                                 orientation)])

InitExtract ==
    /\ fn_args \in Gps5Streams \cup Gps9Streams \cup SensorStreams
    /\ fn_ret = None

\* from_gps5 on a STRM with GPS5
ExtractGps5 ==
    /\ fn_ret = None
    /\ fn_args.gps5 # None
    /\ fn_ret' = [fn |-> "from_gps5", val |-> from_gps5(fn_args)]
    /\ UNCHANGED fn_args

\* from_gps9 on a STRM with GPS9
ExtractGps9 ==
    /\ fn_ret = None
    /\ fn_args.gps9 # None
    /\ fn_ret' = [fn |-> "from_gps9", val |-> from_gps9(fn_args)]
    /\ UNCHANGED fn_args

\* SensorData::new on a STRM with ACCL
ExtractSensor ==
    /\ fn_ret = None
    /\ fn_args.accl # None
    /\ fn_ret' = [fn |-> "SensorData::new", val |-> SensorData_new(fn_args)]
    /\ UNCHANGED fn_args

(***************************************************************************)
(* GoProSession::serial (gopro/session.rs)                                 *)
(***************************************************************************)
\* what GoProFile::serial gives for a clip: the data of CAME, or an error
ClipSerials == {Err, Ok(1), Ok(2)}
\* the numbers of clips of a session
SessionLens == {0, 1, 2, 3, 4}

\* a panic: the call does not return
Panic == [tag |-> "Panic"]

\* filter_map(|gp| gp.serial().ok()) collected into a HashSet
RECURSIVE serials_of(_)
serials_of(session) ==
    IF session = <<>> THEN {}
    ELSE (IF Head(session).tag = "Ok" THEN {Head(session).val} ELSE {})
            \cup serials_of(Tail(session))

\* GoProSession::serial: the assertion on serials.len() == 1 panics, and
\* otherwise the one element of the set is returned
GoProSession_serial(session) ==
    LET serials == serials_of(session)
    IN  IF Cardinality(serials) # 1 THEN Panic
        ELSE [tag |-> "Return", val |-> CHOOSE x \in serials : TRUE]

InitSerial ==
    /\ fn_args \in UNION {[1..len -> ClipSerials] : len \in SessionLens}
    /\ fn_ret = None

CallSerial ==
    /\ fn_ret = None
    /\ fn_ret' = [fn |-> "serial", val |-> GoProSession_serial(fn_args)]
    /\ UNCHANGED fn_args

(***************************************************************************)
(* FourCC (gpmf/fourcc.rs)                                                 *)
(***************************************************************************)
\* the bytes of the tags: NUL, the ASCII letters A C D E L S V, and 0xA9 and
\* 0xC3, which are not ASCII (0xC3 0xA9 is the UTF-8 form of one character)
TagBytes == {0, 65, 67, 68, 69, 76, 83, 86, 169, 195}

\* what a cursor holds where a FourCC is read: up to four bytes
Cursors == UNION {[1..len -> TagBytes] : len \in 0..4}

\* the UTF-8 form of U+FFFD, the replacement character
REPLACEMENT_CHARACTER == <<239, 191, 189>>

\* String::from_utf8_lossy on bytes of TagBytes: ASCII stays, 0xC3 with a
\* continuation byte behind it stays, and any other byte becomes U+FFFD
RECURSIVE from_utf8_lossy(_)
from_utf8_lossy(bytes) ==
    IF bytes = <<>> THEN <<>>
    ELSE IF Head(bytes) < 128 THEN <<Head(bytes)>> \o from_utf8_lossy(Tail(bytes))
    ELSE IF Head(bytes) = 195 /\ Len(bytes) >= 2 /\ bytes[2] = 169
    THEN <<195, 169>> \o from_utf8_lossy(Tail(Tail(bytes)))
    ELSE REPLACEMENT_CHARACTER \o from_utf8_lossy(Tail(bytes))

\* the variants of FourCC
FourCC(name) == [tag |-> name]
FourCC_Invalid == [tag |-> "Invalid"]
FourCC_Other(s) == [tag |-> "Other", val |-> s]

\* FourCC::from_slice, with the arms of the match whose four letters are in
\* TagBytes
from_slice(slice) ==
    CASE slice = <<68, 69, 86, 67>> -> FourCC("DEVC")
      [] slice = <<83, 67, 65, 76>> -> FourCC("SCAL")
      [] slice = <<65, 67, 67, 76>> -> FourCC("ACCL")
      [] slice = <<65, 76, 76, 68>> -> FourCC("ALLD")
      [] slice = <<0>> \/ slice = <<0, 0, 0, 0>> -> FourCC_Invalid
      [] OTHER -> FourCC_Other(from_utf8_lossy(slice))

\* FourCC::new: read into a buffer of four zero bytes, then from_slice
FourCC_new(cursor) ==
    from_slice([i \in 1..4 |-> IF i <= Len(cursor) THEN cursor[i] ELSE 0])

\* FourCC::to_str, the bytes of the string
to_str(fourcc) ==
    CASE fourcc = FourCC("DEVC") -> <<68, 69, 86, 67>>
      [] fourcc = FourCC("SCAL") -> <<83, 67, 65, 76>>
      [] fourcc = FourCC("ACCL") -> <<65, 67, 67, 76>>
      [] fourcc = FourCC("ALLD") -> <<65, 76, 76, 68>>
      [] fourcc = FourCC_Invalid ->
            <<73, 78, 86, 65, 76, 73, 68, 95, 70, 79, 85, 82, 67, 67>>
      [] fourcc.tag = "Other" -> fourcc.val

InitFourCC ==
    /\ fn_args \in Cursors
    /\ fn_ret = None

\* FourCC::new on the cursor
CallFourCCNew ==
    /\ fn_ret = None
    /\ fn_ret' = [fn |-> "FourCC::new", val |-> FourCC_new(fn_args)]
    /\ UNCHANGED fn_args

\* to_str on the FourCC that was read
CallToStr ==
    /\ fn_ret # None
    /\ fn_ret.fn = "FourCC::new"
    /\ fn_ret' = [fn |-> "to_str", val |-> to_str(fn_ret.val), of |-> fn_ret.val]
    /\ UNCHANGED fn_args

(***************************************************************************)
(* Gpmf::find (gpmf/gpmf.rs)                                               *)
(***************************************************************************)
\* the FourCCs of the streams of a tree
TreeFourCCs == {"DEVC", "STRM", "GPS5"}
\* the numbers of streams of a list of streams
StreamListLens == {0, 1, 2}

\* the streams that hold values
ValueStreams == [fourcc : TreeFourCCs, tag : {"Values"}]

\* the streams of a tree: value streams and streams that nest value streams
TreeStreams ==
    ValueStreams \cup
    [fourcc : TreeFourCCs, tag : {"Nested"},
     streams : UNION {[1..len -> ValueStreams] : len \in StreamListLens}]

\* Gpmf::find, the loop over self.streams: a stream with the FourCC is
\* returned, a nested stream has find called on its children with the result
\* dropped, and a stream of values ends the call with None
RECURSIVE Gpmf_find(_, _)
Gpmf_find(streams, fourcc) ==
    IF streams = <<>> THEN None
    ELSE IF Head(streams).fourcc = fourcc THEN Some(Head(streams))
    ELSE IF Head(streams).tag = "Nested" THEN Gpmf_find(Tail(streams), fourcc)
    ELSE None

InitFind ==
    /\ fn_args \in [streams : UNION {[1..len -> TreeStreams] : len \in StreamListLens},
                     fourcc : TreeFourCCs]
    /\ fn_ret = None

CallFind ==
    /\ fn_ret = None
    /\ fn_ret' = [fn |-> "find", val |-> Gpmf_find(fn_args.streams, fn_args.fourcc)]
    /\ UNCHANGED fn_args

\* std::cmp::Ordering of two numbers
Ordering(x, y) == IF x < y THEN "Less" ELSE IF x > y THEN "Greater" ELSE "Equal"

\* impl Ord for Timestamp: cmp looks at relative
Timestamp_cmp(self, other) ==
    IF self.relative > other.relative THEN "Greater"
    ELSE IF self.relative < other.relative THEN "Less"
    ELSE "Equal"

\* derive(PartialOrd) on Timestamp: the fields in the order of declaration,
\* relative before duration
Timestamp_partial_cmp(self, other) ==
    IF Ordering(self.relative, other.relative) # "Equal"
    THEN Some(Ordering(self.relative, other.relative))
    ELSE Some(Ordering(self.duration, other.duration))

\* derive(PartialEq) on Timestamp: every field is equal
Timestamp_eq(self, other) ==
    self.relative = other.relative /\ self.duration = other.duration

\* two timestamps, before they are compared
InitCmp ==
    /\ fn_args \in [self : TimestampArgs, other : TimestampArgs]
    /\ fn_ret = [cmp |-> None, partial_cmp |-> None, eq |-> None]

\* a.cmp(b)
CallCmp ==
    /\ fn_ret.cmp = None
    /\ fn_ret' = [fn_ret EXCEPT !.cmp = Some(Timestamp_cmp(fn_args.self, fn_args.other))]
    /\ UNCHANGED fn_args

\* a.partial_cmp(b)
CallPartialCmp ==
    /\ fn_ret.partial_cmp = None
    /\ fn_ret' = [fn_ret EXCEPT !.partial_cmp =
                    Some(Timestamp_partial_cmp(fn_args.self, fn_args.other))]
    /\ UNCHANGED fn_args

\* a == b
CallEq ==
    /\ fn_ret.eq = None
    /\ fn_ret' = [fn_ret EXCEPT !.eq = Some(Timestamp_eq(fn_args.self, fn_args.other))]
    /\ UNCHANGED fn_args

(***************************************************************************)
(* GoProFile: the clip descriptor                                          *)
(***************************************************************************)
\* the device models the walked clips come from; Hero 7 and Hero 10 stand for
\* the models before Hero 11
Devices == {"Hero7Black", "Hero10Black", "Hero11Black", "Hero12Black", "Hero13Black"}
\* the values a MUID or a non-zero GUMI takes
Ids == {1, 2}
\* the GUMI [0, 0, 0, 0]
GumiZero == 0
\* width and height from which a file counts as the high-resolution clip
GOPRO_MIN_WIDTH_HEIGHT == <<1920, 1080>>
\* widths and heights a camera records the MP4 in
Resolutions == {GOPRO_MIN_WIDTH_HEIGHT, <<1280, 720>>}
\* width and height of a low-resolution (LRV) file
LrvResolution == <<848, 480>>
\* the times of day of a first frame, and the MP4 creation times
Times == {1, 2}
\* the file extensions the walk collects
Extensions == {"mp4", "lrv"}

\* Rust's < on pairs: lexicographic
TupleLt(a, b) == a[1] < b[1] \/ (a[1] = b[1] /\ a[2] < b[2])

\* the path of the file with extension ext of the clip with fingerprint c
Path(c, ext) == <<c, ext>>

GoProFileDefault ==
    [device |-> "Hero5Black", mp4 |-> None, lrv |-> None, muid |-> 0, gumi |-> GumiZero,
     fingerprint |-> 0, creation_time |-> 0, duration |-> 0, time_first_frame |-> 0]

\* GoProFile::new for a readable, unedited GoPro file: the fields are read from
\* the MP4, the path goes to the slot the resolution of the video track selects
GoProFile_new(path) ==
    LET clip == dir[path[1]]
        resolution == IF path[2] = "mp4" THEN clip.resolution ELSE LrvResolution
        gumi == IF path[2] = "lrv" /\ clip.lrv_zero THEN GumiZero ELSE clip.gumi
        gopro == [GoProFileDefault EXCEPT
                    !.time_first_frame = clip.time_first_frame,
                    !.creation_time = clip.creation_time,
                    !.duration = clip.duration,
                    !.device = clip.device,
                    !.muid = clip.muid,
                    !.gumi = gumi,
                    !.fingerprint = path[1]]
    IN  IF TupleLt(resolution, GOPRO_MIN_WIDTH_HEIGHT)
        THEN [gopro EXCEPT !.lrv = Some(path)]
        ELSE [gopro EXCEPT !.mp4 = Some(path)]

merge_no_fingerprint_check(self, other) ==
    IF self = other THEN [result |-> "Ok", self |-> self]
    ELSE LET g == IF other.gumi # GumiZero THEN [self EXCEPT !.gumi = other.gumi] ELSE self
         IN  IF other.mp4 = None /\ other.lrv = None
             THEN [result |-> "PathNotSet", self |-> g]
             ELSE [result |-> "Ok",
                   self |-> [g EXCEPT !.mp4 = IF other.mp4 # None THEN other.mp4 ELSE @,
                                      !.lrv = IF other.lrv # None THEN other.lrv ELSE @]]

\* GoProFile::merge: the result and the receiver as the call leaves it
merge(self, other) ==
    IF self = other THEN [result |-> "Ok", self |-> self]
    ELSE IF self.fingerprint # other.fingerprint
    THEN [result |-> "FingerprintMismatch", self |-> self]
    ELSE LET g == IF other.gumi # GumiZero THEN [self EXCEPT !.gumi = other.gumi] ELSE self
         IN  CASE other.mp4 # None /\ other.lrv = None ->
                    [result |-> "Ok", self |-> [g EXCEPT !.mp4 = other.mp4]]
               [] other.mp4 = None /\ other.lrv # None ->
                    [result |-> "Ok", self |-> [g EXCEPT !.lrv = other.lrv]]
               [] other.mp4 # None /\ other.lrv # None ->
                    [result |-> "Ok", self |-> [g EXCEPT !.mp4 = other.mp4, !.lrv = other.lrv]]
               [] OTHER -> [result |-> "PathNotSet", self |-> g]

\* the descriptors merge is called on: any path slots, any GUMI
MergeArgs(fingerprints) ==
    {[GoProFileDefault EXCEPT !.fingerprint = f, !.mp4 = hi, !.lrv = lo, !.gumi = g] :
        f \in fingerprints,
        hi \in {None} \cup {Some(Path(c, "mp4")) : c \in 1..2},
        lo \in {None} \cup {Some(Path(c, "lrv")) : c \in 1..2},
        g \in Ids \cup {GumiZero}}

InitMerge ==
    /\ merge_self \in MergeArgs({1})
    /\ merge_other \in MergeArgs({1, 2})
    /\ merge_ret = None

\* a call self.merge(&other)
CallMerge ==
    /\ merge_ret = None
    /\ merge_ret' = merge(merge_self, merge_other)
    /\ UNCHANGED <<merge_self, merge_other>>

IdleMerge ==
    /\ merge_self = None
    /\ merge_other = None
    /\ merge_ret = None

(***************************************************************************)
(* GoProSession::sessions_from_path                                        *)
(***************************************************************************)
\* all sequences that list every element of the set S once: the orders in
\* which a HashMap holding S may be iterated
Orders(S) == {s \in [1..Cardinality(S) -> S] : {s[i] : i \in DOMAIN s} = S}

\* the clips a directory may hold: one record per clip, shared by its files
ClipsOf(devices, muids, gumis, zeros, resolutions, times) ==
    [device : devices, muid : muids, gumi : gumis, lrv_zero : zeros,
     resolution : resolutions, creation_time : times, duration : {1},
     time_first_frame : times]

\* the state at the start of the walk: dir holds n clips, video is one of
\* anchors (None for no anchor)
InitWalk(n, clipset, anchors, flags) ==
    /\ dir \in [1..n -> clipset]
    /\ gopro_in_session \in {IF a = None THEN None ELSE GoProFile_new(a) : a \in anchors}
    /\ continue_on_error \in flags
    /\ verify_gpmf \in flags
    /\ hash2gopro = [c \in 1..n |-> None]
    /\ met = {}
    /\ kept = {}
    /\ sessions_ret = None

\* the anchor filter of the walk: FALSE where the loop continues
anchor_keeps(gp) ==
    \/ gopro_in_session = None
    \/ /\ gp.device = gopro_in_session.device
       /\ IF gp.device = "Hero11Black"
          THEN gp.muid = gopro_in_session.muid
          ELSE gp.gumi = gopro_in_session.gumi

\* one iteration of the walk on a file with extension mp4 or lrv that
\* GoProFile::new accepts
WalkFileOn(c, ext, gpmf_ok) ==
    LET path == Path(c, ext)
        gp == GoProFile_new(path)
        entry == IF hash2gopro[gp.fingerprint] = None
                 THEN gp ELSE hash2gopro[gp.fingerprint]
        merged == merge(entry, gp)
    IN  IF verify_gpmf /\ ~gpmf_ok
        THEN UNCHANGED <<hash2gopro, met, kept, sessions_ret>>
        ELSE /\ met' = met \cup {path}
             /\ IF ~anchor_keeps(gp)
                THEN UNCHANGED <<hash2gopro, kept, sessions_ret>>
                ELSE IF merged.result # "Ok"
                THEN /\ sessions_ret' = ErrOf(merged.result)
                     /\ UNCHANGED <<hash2gopro, kept>>
                ELSE /\ hash2gopro' = [hash2gopro EXCEPT ![gp.fingerprint] = merged.self]
                     /\ kept' = kept \cup {path}
                     /\ UNCHANGED sessions_ret

WalkFile ==
    /\ sessions_ret = None
    /\ \E c \in DOMAIN dir, ext \in Extensions, gpmf_ok \in BOOLEAN :
         WalkFileOn(c, ext, gpmf_ok)
    /\ UNCHANGED <<dir, gopro_in_session, continue_on_error, verify_gpmf>>

\* the errors of GoProFile::new: no "GoPro MET" track, and any other
NewErrors == {"NoSuchTrack", "Other"}

WalkFileErrOn_propagates(err) ==
    /\ sessions_ret = None
    /\ IF continue_on_error
       THEN UNCHANGED sessions_ret
       ELSE sessions_ret' = ErrOf(err)
    /\ UNCHANGED <<dir, gopro_in_session, continue_on_error, verify_gpmf,
                   hash2gopro, met, kept>>

\* one iteration of the walk on a file with extension mp4 or lrv that
\* GoProFile::new rejects with err
WalkFileErrOn(err) ==
    /\ sessions_ret = None
    /\ IF continue_on_error \/ err = "NoSuchTrack"
       THEN UNCHANGED sessions_ret
       ELSE sessions_ret' = ErrOf(err)
    /\ UNCHANGED <<dir, gopro_in_session, continue_on_error, verify_gpmf,
                   hash2gopro, met, kept>>

WalkFileErr == \E err \in NewErrors : WalkFileErrOn(err)

\* one iteration of the walk on a directory entry that cannot be read
WalkEntryErr ==
    /\ sessions_ret = None
    /\ UNCHANGED walkVars

uses_muid_hero11_only(device) == device = "Hero11Black"

\* the match on gp.device of the grouping loop: TRUE for the MUID map
uses_muid(device) == device \in {"Hero11Black", "Hero12Black", "Hero13Black"}

RECURSIVE group_loop_both_maps(_, _, _)
group_loop_both_maps(order, i, maps) ==
    IF i > Len(order) THEN maps
    ELSE LET gp == hash2gopro[order[i]]
         IN  group_loop_both_maps(order, i + 1,
                [maps EXCEPT !.muid2gopro[gp.muid] = Append(@, gp),
                             !.gumi2gopro[gp.gumi] = Append(@, gp)])

\* the grouping loop over hash2gopro, iterated in the given order
RECURSIVE group_loop(_, _, _)
group_loop(order, i, maps) ==
    IF i > Len(order) THEN maps
    ELSE LET gp == hash2gopro[order[i]]
         IN  group_loop(order, i + 1,
                IF uses_muid(gp.device)
                THEN [maps EXCEPT !.muid2gopro[gp.muid] = Append(@, gp)]
                ELSE [maps EXCEPT !.gumi2gopro[gp.gumi] = Append(@, gp)])

\* slice::sort_by_key on the field key, a stable sort: x goes behind the
\* elements whose key is not larger
RECURSIVE sort_by_key(_, _)
sort_by_key(s, key) ==
    IF s = <<>> THEN <<>>
    ELSE LET x == s[Len(s)]
             front == sort_by_key(SubSeq(s, 1, Len(s) - 1), key)
             n == Cardinality({j \in DOMAIN front : front[j][key] <= x[key]})
         IN  SubSeq(front, 1, n) \o <<x>> \o SubSeq(front, n + 1, Len(front))

sort_on_creation_time(session) == sort_by_key(session, "creation_time")

\* GoProSession::sort
sort(session) == sort_by_key(session, "time_first_frame")

\* the sessions of one map, its keys iterated in the given order, each sorted
RECURSIVE sessions_of(_, _)
sessions_of(map, order) ==
    IF order = <<>> THEN <<>>
    ELSE <<sort(map[Head(order)])>> \o sessions_of(map, Tail(order))

\* the end of the walk: group, compile and sort, and return the sessions
Compile ==
    /\ sessions_ret = None
    /\ \E order \in Orders({c \in DOMAIN hash2gopro : hash2gopro[c] # None}) :
         LET empty == [k \in Ids \cup {GumiZero} |-> <<>>]
             maps == group_loop(order, 1, [muid2gopro |-> empty, gumi2gopro |-> empty])
         IN  \E muids \in Orders({k \in DOMAIN empty : maps.muid2gopro[k] # <<>>}),
                gumis \in Orders({k \in DOMAIN empty : maps.gumi2gopro[k] # <<>>}) :
               sessions_ret' = Ok(sessions_of(maps.muid2gopro, muids)
                                  \o sessions_of(maps.gumi2gopro, gumis))
    /\ UNCHANGED <<dir, gopro_in_session, continue_on_error, verify_gpmf,
                   hash2gopro, met, kept>>

\* a second call of sessions_from_path with the same arguments on the same
\* directory: the first call has returned, its return value and the files it
\* met are kept, and the walk starts again on an empty hash2gopro
CallAgain ==
    /\ sessions_ret # None
    /\ sessions_prev = None
    /\ sessions_prev' = [ret |-> sessions_ret, met |-> met]
    /\ hash2gopro' = [c \in DOMAIN dir |-> None]
    /\ met' = {}
    /\ kept' = {}
    /\ sessions_ret' = None
    /\ UNCHANGED <<dir, gopro_in_session, continue_on_error, verify_gpmf>>

\* GoProSession::from_path behind its call of sessions_from_path: the error
\* of that call, NoSession without sessions, the first session otherwise
from_path(sessions) ==
    IF sessions.tag = "Err" THEN sessions
    ELSE IF sessions.val = <<>> THEN ErrOf("NoSession")
    ELSE Ok(sessions.val[1])

\* GoProSession::from_path returns; gopro_in_session is None where its
\* argument video could not be read as a GoPro clip
FromPathReturn ==
    /\ sessions_ret # None
    /\ fn_ret = None
    /\ fn_ret' = [fn |-> "from_path", val |-> from_path(sessions_ret)]
    /\ UNCHANGED fn_args

\* GoProFile::set_path: the path goes to the slot its extension names
set_path(self, path) ==
    IF path[2] = "mp4" THEN [self EXCEPT !.mp4 = Some(path)]
    ELSE IF path[2] = "lrv" THEN [self EXCEPT !.lrv = Some(path)]
    ELSE self

\* GoProFile::matches
matches(self, other) ==
    IF self.device # other.device THEN FALSE
    ELSE IF self.device = "Hero11Black" THEN self.muid = other.muid
    ELSE self.gumi = other.gumi

\* GoProSession::part_of
part_of(session, gopro) == \E i \in DOMAIN session : matches(gopro, session[i])

\* one file of compile and its iteration of hash2gopro in
\* sessions_from_path_par: the descriptor of the first file met with the
\* fingerprint is kept as it is, and set_path is called on it
ParFileOn(c, ext, gpmf_ok) ==
    LET path == Path(c, ext)
        gp == GoProFile_new(path)
        entry == IF par_hash2gopro[gp.fingerprint] = None
                 THEN gp ELSE par_hash2gopro[gp.fingerprint]
    IN  IF verify_gpmf /\ ~gpmf_ok
        THEN UNCHANGED par_hash2gopro
        ELSE par_hash2gopro' = [par_hash2gopro EXCEPT
                                  ![gp.fingerprint] = set_path(entry, path)]

\* the directory walk delivers one file that GoProFile::new accepts to
\* sessions_from_path and to sessions_from_path_par, called on the same
\* directory with the same anchor
BothWalkFile ==
    /\ sessions_ret = None
    /\ par_ret = None
    /\ \E c \in DOMAIN dir, ext \in Extensions, gpmf_ok \in BOOLEAN :
         WalkFileOn(c, ext, gpmf_ok) /\ ParFileOn(c, ext, gpmf_ok)
    /\ UNCHANGED <<dir, gopro_in_session, continue_on_error, verify_gpmf, par_ret>>

\* the grouping loop of sessions_from_path_par over its hash2gopro
RECURSIVE par_group_loop(_, _, _)
par_group_loop(order, i, maps) ==
    IF i > Len(order) THEN maps
    ELSE LET gp == par_hash2gopro[order[i]]
         IN  par_group_loop(order, i + 1,
                IF uses_muid(gp.device)
                THEN [maps EXCEPT !.muid2gopro[gp.muid] = Append(@, gp)]
                ELSE [maps EXCEPT !.gumi2gopro[gp.gumi] = Append(@, gp)])

\* Iterator::find_map of the anchor selection: the first session the anchor
\* is part of, as a list of one session, and the empty list without one
RECURSIVE find_map_part_of(_, _)
find_map_part_of(sessions, gp) ==
    IF sessions = <<>> THEN <<>>
    ELSE IF part_of(Head(sessions), gp) THEN <<Head(sessions)>>
    ELSE find_map_part_of(Tail(sessions), gp)

\* the end of sessions_from_path_par
par_select(sessions) ==
    IF gopro_in_session # None
    THEN find_map_part_of(sessions, gopro_in_session)
    ELSE sessions

\* the end of sessions_from_path_par: group, compile and sort, select on the
\* anchor and return
ParCompile ==
    /\ sessions_ret # None
    /\ par_ret = None
    /\ \E order \in Orders({c \in DOMAIN par_hash2gopro : par_hash2gopro[c] # None}) :
         LET empty == [k \in Ids \cup {GumiZero} |-> <<>>]
             maps == par_group_loop(order, 1, [muid2gopro |-> empty, gumi2gopro |-> empty])
         IN  \E muids \in Orders({k \in DOMAIN empty : maps.muid2gopro[k] # <<>>}),
                gumis \in Orders({k \in DOMAIN empty : maps.gumi2gopro[k] # <<>>}) :
               par_ret' = Ok(par_select(sessions_of(maps.muid2gopro, muids)
                                        \o sessions_of(maps.gumi2gopro, gumis)))
    /\ UNCHANGED par_hash2gopro

\* the directory walk delivers a file that GoProFile::new rejects:
\* sessions_from_path handles the error, compile of sessions_from_path_par
\* leaves the file out
BothWalkFileErr == WalkFileErr /\ par_ret = None /\ UNCHANGED parVars

IdlePrev == sessions_prev = None

IdlePar ==
    /\ par_hash2gopro = <<>>
    /\ par_ret = None

IdleLog == walk_log = <<>>

IdleWalk ==
    /\ dir = <<>>
    /\ gopro_in_session = None
    /\ continue_on_error = FALSE
    /\ verify_gpmf = FALSE
    /\ hash2gopro = <<>>
    /\ met = {}
    /\ kept = {}
    /\ sessions_ret = None

(***************************************************************************)
(* Properties of Timestamp::add                                            *)
(***************************************************************************)
\* C1: a.add(b) has relative = a.relative + b.relative + b.duration and the
\* duration of a; only the relative field changes.
C1_AddShiftsRelativeOnly ==
    ts_result # None =>
        /\ ts_result.relative = ts_self.relative + ts_other.relative + ts_other.duration
        /\ ts_result.duration = ts_self.duration

\* add was called with a non-zero duration of `other` that differs from the
\* duration of `self`
C1_Witness ==
    /\ ts_result # None
    /\ ts_other.duration > 0
    /\ ts_other.relative > 0
    /\ ts_self.duration # ts_other.duration

(***************************************************************************)
(* Properties of GoProSession::gpmf                                        *)
(***************************************************************************)
\* gpmf() has returned Ok
GpmfOk == gpmf_ret # None /\ gpmf_ret # Err

\* the stream list of clip k parsed alone
Alone(k) == from_mp4(k, clips[k], devcs).streams

\* last relative + last duration of a stream list
EndOf(streams) ==
    LET t == streams[Len(streams)].time IN t.relative + t.duration

\* a stream list with `shift` added to every relative
ShiftedBy(streams, shift) ==
    [i \in 1..Len(streams) |->
        [id   |-> streams[i].id,
         time |-> Timestamp(streams[i].time.relative + shift, streams[i].time.duration)]]

\* the streams of the clips k.. in session order, clip k shifted by `shift`
\* and every later clip by `shift` plus the ends of the clips k.. before it,
\* each end taken from the clip parsed alone
RECURSIVE ShiftedClipsFrom(_, _)
ShiftedClipsFrom(k, shift) ==
    IF k > Len(clips) THEN <<>>
    ELSE LET a == Alone(k)
         IN  ShiftedBy(a, shift) \o ShiftedClipsFrom(k + 1, shift + EndOf(a))

\* the index in the merged stream list of the first stream of each of the
\* clips k.., the first stream of clip k being at `start`
RECURSIVE FirstIdxFrom(_, _)
FirstIdxFrom(k, start) ==
    IF k > Len(clips) THEN <<>>
    ELSE <<start>> \o FirstIdxFrom(k + 1, start + Len(Alone(k)))

\* every sample duration of every clip is positive
DurationsPositive == \A c \in 1..Len(clips) : \A k \in 1..Len(clips[c]) : clips[c][k] > 0

\* C2: the merged streams are the streams of the clips, clip by clip in session
\* order; a stream of clip k has its own relative plus the sum over j < k of
\* (last relative + last duration of clip j parsed alone) and its own duration;
\* the first clip is not shifted.
C2_StreamsShiftedBySumOfPriorEnds ==
    GpmfOk =>
        /\ gpmf_ret.streams = ShiftedClipsFrom(1, 0)
        /\ LET first == Alone(1)
           IN  SubSeq(gpmf_ret.streams, 1, Len(first)) = first

\* three clips were merged, the third has a stream with a relative of its own
\* and both earlier clips end after 0, at different times
C2_Witness ==
    /\ GpmfOk
    /\ Len(clips) = 3
    /\ EndOf(Alone(1)) > 0
    /\ EndOf(Alone(2)) > 0
    /\ EndOf(Alone(1)) # EndOf(Alone(2))
    /\ LET third == Alone(3) IN third[Len(third)].time.relative > 0

\* C3: for consecutive clips A, B of the session, the first timestamp of B in
\* the merged list has relative = A.last.relative + A.last.duration.
C3_FirstOfNextClipAtEndOfPrevious ==
    GpmfOk =>
        LET first == FirstIdxFrom(1, 1)
        IN  \A k \in 2..Len(clips) :
                gpmf_ret.streams[first[k]].time.relative =
                    gpmf_ret.streams[first[k] - 1].time.relative
                    + gpmf_ret.streams[first[k] - 1].time.duration

\* two clips were merged and the first has two samples of different positive
\* durations
C3_Witness ==
    /\ GpmfOk
    /\ Len(clips) >= 2
    /\ Len(clips[1]) = 2
    /\ clips[1][1] > 0
    /\ clips[1][2] > 0
    /\ clips[1][1] # clips[1][2]

\* C4: with positive sample durations, relative is non-decreasing over the
\* whole merged list and strictly greater for the first stream of a clip than
\* for the last stream of the clip before it.
C4_RelativeMonotonicAcrossClips ==
    (GpmfOk /\ DurationsPositive) =>
        LET first == FirstIdxFrom(1, 1)
        IN  /\ \A i \in 1..(Len(gpmf_ret.streams) - 1) :
                  gpmf_ret.streams[i].time.relative <= gpmf_ret.streams[i + 1].time.relative
            /\ \A k \in 2..Len(clips) :
                  gpmf_ret.streams[first[k] - 1].time.relative
                      < gpmf_ret.streams[first[k]].time.relative

\* three clips of positive sample durations were merged, two DEVC per sample
\* (equal relatives inside a sample) and a clip of two samples in the middle
C4_Witness ==
    /\ GpmfOk
    /\ DurationsPositive
    /\ Len(clips) = 3
    /\ devcs = 2
    /\ Len(clips[2]) = 2

(***************************************************************************)
(* Properties of GoProSession::sessions_from_path                          *)
(***************************************************************************)
SessionsOk == sessions_ret.tag = "Ok"

\* the device models whose clips of one session share the MUID
MuidDevices == {"Hero11Black", "Hero12Black", "Hero13Black"}

HasMuidClip(session) == \E i \in DOMAIN session : session[i].device \in MuidDevices

\* C5: in every returned session that holds a Hero 11, 12 or 13 clip all clips
\* have the same MUID, in every other session all clips have the same GUMI,
\* and no two returned sessions of the same key kind have the same key value.
C5_SessionsPartitionByDeviceKey ==
    SessionsOk =>
        LET sessions == sessions_ret.val
        IN  /\ \A s \in DOMAIN sessions : \A i, j \in DOMAIN sessions[s] :
                    IF HasMuidClip(sessions[s])
                    THEN sessions[s][i].muid = sessions[s][j].muid
                    ELSE sessions[s][i].gumi = sessions[s][j].gumi
            /\ \A s, t \in DOMAIN sessions :
                    s # t /\ HasMuidClip(sessions[s]) = HasMuidClip(sessions[t]) =>
                        IF HasMuidClip(sessions[s])
                        THEN sessions[s][1].muid # sessions[t][1].muid
                        ELSE sessions[s][1].gumi # sessions[t][1].gumi

\* a Hero 12 and a Hero 13 clip of one MUID and different GUMI are returned
\* as one session
C5_Witness ==
    /\ SessionsOk
    /\ \E s \in DOMAIN sessions_ret.val :
          LET session == sessions_ret.val[s]
          IN  /\ Len(session) = 2
              /\ {session[1].device, session[2].device} = {"Hero12Black", "Hero13Black"}
              /\ session[1].gumi # session[2].gumi

\* C6: every returned session holds clips of one device model only, whatever
\* MUID and GUMI the walked files carry.
C6_SessionHasOneDevice ==
    SessionsOk =>
        \A s \in DOMAIN sessions_ret.val : \A i, j \in DOMAIN sessions_ret.val[s] :
            sessions_ret.val[s][i].device = sessions_ret.val[s][j].device

\* a session of two low-resolution clips with GUMI zero from a Hero 7 and a
\* Hero 10
C6_ZeroGumiMixesDevices ==
    /\ SessionsOk
    /\ \E s \in DOMAIN sessions_ret.val :
          LET session == sessions_ret.val[s]
          IN  /\ Len(session) = 2
              /\ {session[1].device, session[2].device} = {"Hero7Black", "Hero10Black"}
              /\ session[1].gumi = GumiZero
              /\ session[2].gumi = GumiZero

\* the places <<s, i>> of the returned sessions that hold fingerprint c
PlacesOf(c) ==
    {p \in {<<s, i>> : s \in DOMAIN sessions_ret.val, i \in DOMAIN dir} :
        /\ p[2] \in DOMAIN sessions_ret.val[p[1]]
        /\ sessions_ret.val[p[1]][p[2]].fingerprint = c}

\* C7: each fingerprint among the accepted files is in exactly one returned
\* session and exactly once inside it, also when the walk met the clip
\* several times; no other fingerprint is returned.
C7_FingerprintInOneSessionOnce ==
    SessionsOk =>
        \A c \in DOMAIN dir :
            Cardinality(PlacesOf(c)) = IF \E p \in kept : p[1] = c THEN 1 ELSE 0

\* the walk met both files of both clips, and the two clips are returned
C7_Witness ==
    /\ SessionsOk
    /\ Cardinality(kept) = 4
    /\ Cardinality(UNION {PlacesOf(c) : c \in DOMAIN dir}) = 2

\* C8: in every returned session the clips are in ascending order of
\* time_first_frame; the MP4 creation time plays no part in the order.
C8_SessionsSortedOnFirstFrame ==
    SessionsOk =>
        \A s \in DOMAIN sessions_ret.val : \A i, j \in DOMAIN sessions_ret.val[s] :
            i < j => sessions_ret.val[s][i].time_first_frame
                        <= sessions_ret.val[s][j].time_first_frame

\* a session of three clips, the first with an earlier first frame and a
\* later creation time than the last
C8_Witness ==
    /\ SessionsOk
    /\ \E s \in DOMAIN sessions_ret.val :
          LET session == sessions_ret.val[s]
          IN  /\ Len(session) = 3
              /\ session[1].time_first_frame < session[3].time_first_frame
              /\ session[1].creation_time > session[3].creation_time

\* the clip gp matches the anchor on the device and on the key of the device:
\* the MUID for Hero 11, 12 and 13, the GUMI for every other device
MatchesAnchor(gp) ==
    /\ gp.device = gopro_in_session.device
    /\ IF gp.device \in MuidDevices
       THEN gp.muid = gopro_in_session.muid
       ELSE gp.gumi = gopro_in_session.gumi

\* C9: with an anchor, a walked clip is kept exactly when its device and its
\* device-appropriate key (MUID for Hero 11, 12, 13, GUMI otherwise) equal the
\* anchor's, and the result is only the session that contains the anchor.
C9_AnchorKeepsOnDeviceKey ==
    gopro_in_session # None =>
        /\ \A p \in met : p \in kept <=> MatchesAnchor(GoProFile_new(p))
        /\ SessionsOk =>
              /\ Len(sessions_ret.val) <= 1
              /\ (\E p \in met : GoProFile_new(p) = gopro_in_session) =>
                    Cardinality(PlacesOf(gopro_in_session.fingerprint)) = 1

\* the anchor is a Hero 12 clip; the walk met a second Hero 12 clip with the
\* MUID of the anchor and another GUMI, and did not keep it
C9_Hero12ClipOfSessionDropped ==
    /\ gopro_in_session # None
    /\ gopro_in_session.device = "Hero12Black"
    /\ \E p \in met \ kept :
          /\ GoProFile_new(p).device = "Hero12Black"
          /\ GoProFile_new(p).muid = gopro_in_session.muid
          /\ GoProFile_new(p).gumi # gopro_in_session.gumi
          /\ GoProFile_new(p).gumi # GumiZero

(***************************************************************************)
(* Properties of GoProFile::merge                                          *)
(***************************************************************************)
\* C10, the merge: for two descriptors of one fingerprint, in either order,
\* the merged descriptor has every path slot set that either of them had set,
\* and a non-zero GUMI whenever either of them had one.
C10_MergeAccumulates ==
    (merge_ret # None /\ merge_self.fingerprint = merge_other.fingerprint) =>
        /\ (merge_self.mp4 # None \/ merge_other.mp4 # None) => merge_ret.self.mp4 # None
        /\ (merge_self.lrv # None \/ merge_other.lrv # None) => merge_ret.self.lrv # None
        /\ (merge_self.gumi # GumiZero \/ merge_other.gumi # GumiZero) =>
                merge_ret.self.gumi # GumiZero

\* a descriptor with only the low-resolution path and GUMI zero has merged one
\* with only the high-resolution path and a GUMI
C10_MergeWitness ==
    /\ merge_ret # None
    /\ merge_ret.result = "Ok"
    /\ merge_self.mp4 = None /\ merge_self.lrv # None /\ merge_self.gumi = GumiZero
    /\ merge_other.mp4 # None /\ merge_other.lrv = None /\ merge_other.gumi # GumiZero
    /\ merge_self.fingerprint = merge_other.fingerprint

\* C10, the walk: after a walk that met both the MP4 and the LRV of a clip,
\* the descriptor of that clip has both paths set.
C10_WalkedPairHasBothPaths ==
    \A c \in DOMAIN dir :
        (Path(c, "mp4") \in met /\ Path(c, "lrv") \in met /\ hash2gopro[c] # None) =>
            hash2gopro[c].mp4 # None /\ hash2gopro[c].lrv # None

\* the anchor is the MP4 of the clip; the walk met the MP4 and the LRV, whose
\* GUMI is zero, and the clip has no low-resolution path
C10_ZeroGumiLrvOfAnchorDropped ==
    /\ gopro_in_session # None
    /\ gopro_in_session.mp4 = Some(Path(1, "mp4"))
    /\ met = {Path(1, "mp4"), Path(1, "lrv")}
    /\ GoProFile_new(Path(1, "lrv")).gumi = GumiZero
    /\ hash2gopro[1] # None
    /\ hash2gopro[1].mp4 = Some(Path(1, "mp4"))
    /\ hash2gopro[1].lrv = None

\* C11: merge of two descriptors whose fingerprints differ returns the
\* FingerprintMismatch error, whatever the other fields are.
C11_MergeFingerprintMismatch ==
    (merge_ret # None /\ merge_self.fingerprint # merge_other.fingerprint) =>
        merge_ret.result = "FingerprintMismatch"

\* merge was called with another fingerprint on descriptors that agree on
\* every other field and have both paths set
C11_Witness ==
    /\ merge_ret # None
    /\ merge_self.fingerprint # merge_other.fingerprint
    /\ merge_other = [merge_self EXCEPT !.fingerprint = merge_other.fingerprint]
    /\ merge_self.mp4 # None /\ merge_self.lrv # None

(***************************************************************************)
(* Properties of the walk of sessions_from_path on entries it cannot use   *)
(***************************************************************************)
\* the entry the step has just logged
Logged == walk_log'[Len(walk_log')]

\* the step leaves the walk running and what it has collected unchanged
EntrySkipped == sessions_ret' = None /\ UNCHANGED <<hash2gopro, met, kept>>

\* C12: an unreadable directory entry is skipped; a candidate file whose
\* descriptor cannot be built is skipped when continue_on_error is set or the
\* error is the missing-track error; any other construction error with
\* continue_on_error unset makes the call return that error and no sessions.
C12_WalkErrorsSkippedOrReturned ==
    [][Len(walk_log') = Len(walk_log) + 1 =>
        CASE Logged.kind = "Unreadable" -> EntrySkipped
          [] Logged.kind = "Rejected" ->
                IF continue_on_error \/ Logged.err = "NoSuchTrack"
                THEN EntrySkipped
                ELSE sessions_ret' = ErrOf(Logged.err)
          [] OTHER -> TRUE]_vars

\* a strict walk has kept a file, skipped an unreadable entry and a file
\* without the track, and then returned sessions
C12_Witness ==
    /\ ~continue_on_error
    /\ walk_log = <<[kind |-> "File"], [kind |-> "Unreadable"],
                    [kind |-> "Rejected", err |-> "NoSuchTrack"]>>
    /\ SessionsOk
    /\ Len(sessions_ret.val) = 1

(***************************************************************************)
(* Properties of Gpmf::from_mp4                                            *)
(***************************************************************************)
\* stream a comes before stream b in the track: an earlier sample, or the
\* same sample and an earlier position
BeforeInTrack(a, b) ==
    a.id[2] < b.id[2] \/ (a.id[2] = b.id[2] /\ a.id[3] < b.id[3])

\* C13: from_mp4 returns the streams of sample k before those of sample k+1,
\* the streams of one sample in parse order, each stream with the (relative,
\* duration) of its own sample, whatever order the parallel tasks finish in.
C13_Mp4StreamsInSampleOrder ==
    mp4_ret.tag = "Ok" =>
        LET streams == mp4_ret.val.streams
        IN  /\ \A i, j \in DOMAIN streams :
                    i < j => BeforeInTrack(streams[i], streams[j])
            /\ \A i \in DOMAIN streams :
                    streams[i].time = sample_time(streams[i].id[2])

\* three sound samples whose tasks finished in reverse order are returned
C13_Witness ==
    /\ mp4_ret.tag = "Ok"
    /\ finished = <<3, 2, 1>>
    /\ Len(mp4_ret.val.streams) = 6

\* the streams of sample k that parse before its offending atom, all of them
\* for a sound sample
ParsableOf(k) == {<<1, k, n>> : n \in 1..track[k].good}

\* C16: a decode error in one sample makes from_mp4 return an error and no
\* stream list when debug is off; with debug on only that sample is cut
\* short and the streams of the other samples are still returned.
C16_DecodeErrorAbortsFileUnlessDebug ==
    (mp4_ret # None /\ mp4_ret # ErrOf("Mp4Error")) =>
        IF debug
        THEN /\ mp4_ret.tag = "Ok"
             /\ {mp4_ret.val.streams[i].id : i \in DOMAIN mp4_ret.val.streams}
                    = UNION {ParsableOf(k) : k \in DOMAIN track}
        ELSE mp4_ret.tag = "Err" <=> \E k \in DOMAIN track : ~Sound(track[k])

\* with debug on, the second of three samples is cut short after its first
\* stream and the five other streams are returned
C16_Witness ==
    /\ debug
    /\ Len(track) = 3
    /\ Sound(track[1]) /\ track[2].good = 1 /\ Sound(track[3])
    /\ mp4_ret.tag = "Ok"
    /\ Len(mp4_ret.val.streams) = 5

(***************************************************************************)
(* Properties of Gpmf::from_mp4_mpsc                                       *)
(***************************************************************************)
\* C14: the stream list from_mp4_mpsc returns is in sample order for every
\* interleaving of its threads, whichever thread sends first.
C14_MpscStreamsInSampleOrder ==
    mp4_ret.tag = "Ok" =>
        \A i, j \in DOMAIN mp4_ret.val.streams :
            i < j => BeforeInTrack(mp4_ret.val.streams[i], mp4_ret.val.streams[j])

\* the thread of the second of two samples sent first, and the returned list
\* starts with the streams of the second sample
C14_SecondSampleFirst ==
    /\ mp4_ret.tag = "Ok"
    /\ finished = <<2, 1>>
    /\ mp4_ret.val.streams[1].id = <<1, 2, 1>>
    /\ mp4_ret.val.streams[3].id = <<1, 1, 1>>

\* the points of a log a call with these thresholds is to keep, in the order
\* of the log: an absent threshold lets every point pass
RECURSIVE PointsPassing(_, _, _)
PointsPassing(points, min_fix, max_dop) ==
    IF points = <<>> THEN <<>>
    ELSE (IF /\ (min_fix = None \/ Head(points).fix >= min_fix.val)
             /\ (max_dop = None \/ f64_le(Head(points).dop, max_dop.val))
          THEN <<Head(points)>> ELSE <<>>)
            \o PointsPassing(Tail(points), min_fix, max_dop)

\* C17: Gps::prune returns exactly the points with fix >= min_fix and
\* dop <= max_dop, in the order of the log, and every point when both
\* thresholds are absent; Gps::prune_mut leaves the same points in the log
\* and returns the number of points it removed.
C17_PruneKeepsPassingPoints ==
    fn_ret # None =>
        LET passing == PointsPassing(fn_args.self, fn_args.min_fix, fn_args.max_dop)
        IN  /\ fn_ret.fn = "prune" => fn_ret.val = passing
            /\ fn_ret.fn = "prune_mut" =>
                    /\ fn_ret.val.self = passing
                    /\ fn_ret.val.removed = Len(fn_args.self) - Len(passing)
            /\ (fn_args.min_fix = None /\ fn_args.max_dop = None) =>
                    passing = fn_args.self

\* a call of prune without thresholds that returned fewer points than the
\* log holds
C17_PruneWithoutThresholdsDrops ==
    /\ fn_ret # None
    /\ fn_ret.fn = "prune"
    /\ fn_args.min_fix = None
    /\ fn_args.max_dop = None
    /\ Len(fn_ret.val) < Len(fn_args.self)

\* the claim of C17 on the logs whose points all have a finite dop
PruneKeepsPassingFinitePoints ==
    (\A i \in 1..Len(fn_args.self) : fn_args.self[i].dop.kind = "finite")
        => C17_PruneKeepsPassingPoints

\* the positions of the points of a log with at least this fix
Qualifying(points, min_fix) == {i \in 1..Len(points) : points[i].fix >= min_fix}

\* the least member of a non-empty set of positions
FirstOf(S) == CHOOSE i \in S : \A j \in S : i <= j

Nearest(x, a, b) ==
    LET gap == IF x * b >= a THEN x * b - a ELSE a - x * b
    IN  2 * gap <= b

C19_WitnessRounded ==
    /\ fn_ret # None
    /\ fn_args.gps9 = Some(<<2, 4, 2>>)
    /\ fn_args.scal = Some(2)
    /\ fn_args.time = Some([relative |-> 7, duration |-> 5])
    /\ fn_ret.val = Some(<<[latitude |-> F64(1), time |-> Some([relative |-> 7, duration |-> 2])],
                           [latitude |-> F64(2), time |-> Some([relative |-> 9, duration |-> 2])],
                           [latitude |-> F64(1), time |-> Some([relative |-> 10, duration |-> 2])]>>)

\* the table of the axes: for each order, the positions (from 0) of the raw
\* values that become x, y and z
AxisTable ==
    [XYZ |-> <<0, 1, 2>>, XZY |-> <<0, 2, 1>>, YZX |-> <<2, 0, 1>>,
     YXZ |-> <<1, 0, 2>>, ZXY |-> <<1, 2, 0>>, ZYX |-> <<2, 1, 0>>]

\* the rows of a batch that are not skipped under a token, in their order
RECURSIVE RowsTaken(_, _)
RowsTaken(rows, token) ==
    IF rows = <<>> THEN <<>>
    ELSE (IF token \in DOMAIN AxisTable /\ Len(Head(rows)) >= 3
          THEN <<Head(rows)>> ELSE <<>>) \o RowsTaken(Tail(rows), token)

\* C20: under each of the six orders of the axes a row (a0, a1, a2) becomes
\* the (x, y, z) of the table, each value divided by the scale; under any
\* other token, or with fewer than three values, the row is skipped, and the
\* other rows of the batch are returned in their order.
C20_SensorAxisTable ==
    (fn_ret # None /\ fn_args.orin # None) =>
        LET token == fn_args.orin.val
            taken == RowsTaken(fn_args.rows, token)
        IN  /\ Len(fn_ret.fields) = Len(taken)
            /\ \A n \in 1..Len(taken) :
                LET a == taken[n]
                    at == AxisTable[token]
                    field == fn_ret.fields[n]
                IN  /\ field.x = F64(a[at[1] + 1] \div fn_args.scale)
                    /\ field.y = F64(a[at[2] + 1] \div fn_args.scale)
                    /\ field.z = F64(a[at[3] + 1] \div fn_args.scale)

\* a batch under ZXY whose first row has two values and whose second row has
\* three differing values: only the second row is returned
C20_Witness ==
    /\ fn_ret # None
    /\ fn_args.orin = Some("ZXY")
    /\ fn_args.scale = 2
    /\ fn_args.rows = <<<<2, 4>>, <<-2, 2, 4>>>>
    /\ fn_ret.fields = <<[x |-> F64(1), y |-> F64(2), z |-> F64(-1)]>>

\* a batch under a token that names no order of the axes returns no field
C20_WitnessInvalid ==
    /\ fn_ret # None
    /\ fn_args.orin = Some("XXY")
    /\ Len(fn_args.rows) = 2
    /\ fn_ret.orientation = "Invalid"
    /\ fn_ret.fields = <<>>

\* the sessions of a return value, as a set
SessionSet(ret) == {ret.val[i] : i \in DOMAIN ret.val}

\* two calls on the same directory have returned sessions, and both walks met
\* the same files
TwoCallsReturned ==
    /\ sessions_prev # None
    /\ sessions_prev.ret.tag = "Ok"
    /\ sessions_ret.tag = "Ok"
    /\ sessions_prev.met = met

\* C15: two calls of sessions_from_path on the same unchanged directory with
\* the same arguments return the same set of sessions, each session with its
\* clips in the same order and with the same path slots and GUMI, whatever
\* the iteration order of the hash maps and the order the files are met in.
C15_TwoCallsSameSessions ==
    TwoCallsReturned => SessionSet(sessions_ret) = SessionSet(sessions_prev.ret)

\* two calls returned one session each, of the same two clips, in opposite
\* orders
C15_SameClipsOtherOrder ==
    /\ TwoCallsReturned
    /\ Len(sessions_ret.val) = 1
    /\ Len(sessions_prev.ret.val) = 1
    /\ Len(sessions_ret.val[1]) = 2
    /\ sessions_prev.ret.val[1] = <<sessions_ret.val[1][2], sessions_ret.val[1][1]>>
    /\ sessions_ret.val[1][1] # sessions_ret.val[1][2]

\* the first frames of the clips of the directory are at different times
DistinctFirstFrames ==
    \A c, d \in DOMAIN dir :
        c # d => dir[c].time_first_frame # dir[d].time_first_frame

\* the claim of C15 on the directories whose clips differ in the time of the
\* first frame
TwoCallsSameSessionsOnDistinctFirstFrames ==
    DistinctFirstFrames => C15_TwoCallsSameSessions

\* the STRM of the call has no SCAL, and has the other children its
\* extractor requires
StreamWithoutScal ==
    /\ fn_ret # None
    /\ fn_args.scal = None
    /\ fn_ret.fn = "from_gps5" => fn_args.gpsu # None
    /\ fn_ret.fn = "SensorData::new" => fn_args.tsmp # None

\* the fields of a sensor batch left unscaled
RECURSIVE RawFields(_, _)
RawFields(rows, orientation) ==
    IF rows = <<>> THEN <<>>
    ELSE LET field == SensorField_new(Head(rows), 1, orientation)
         IN  (IF field = None THEN <<>> ELSE <<field.val>>)
                \o RawFields(Tail(rows), orientation)

\* the output of the call holds the raw values of the STRM
OutputIsRaw ==
    /\ fn_ret.val # None
    /\ fn_ret.fn = "from_gps5" =>
            fn_ret.val.val.latitude
                = F64(SumSeq(fn_args.gps5.val) \div Len(fn_args.gps5.val))
    /\ fn_ret.fn = "from_gps9" =>
            /\ Len(fn_ret.val.val) = Len(fn_args.gps9.val)
            /\ \A n \in 1..Len(fn_args.gps9.val) :
                    fn_ret.val.val[n].latitude = F64(fn_args.gps9.val[n])
    /\ fn_ret.fn = "SensorData::new" =>
            fn_ret.val.val.fields
                = RawFields(fn_args.accl.val, orientation_of(fn_args.orin))

\* C21: on a STRM that has its data but no SCAL, from_gps5, from_gps9 and
\* SensorData::new still return output, with every value scaled by 1.0,
\* that is, equal to the raw value.
C21_NoScalMeansUnitScale ==
    StreamWithoutScal => OutputIsRaw

\* an extractor returned nothing for a STRM that lacks only SCAL
C21_NoScalNoOutput ==
    /\ StreamWithoutScal
    /\ fn_ret.val = None

\* the entry of SCAL for the data of the call is 0: SCAL is one entry for
\* from_gps9 and a list of entries for the other two
ScalIsZero ==
    IF fn_ret.fn = "from_gps9" THEN fn_args.scal.val = 0
    ELSE fn_args.scal.val = <<0>>

\* the STRM of the call has a SCAL whose entry for the data is 0, and has
\* the other children its extractor requires
StreamWithZeroScal ==
    /\ fn_ret # None
    /\ fn_args.scal # None
    /\ ScalIsZero
    /\ fn_ret.fn = "from_gps5" => fn_args.gpsu # None
    /\ fn_ret.fn = "SensorData::new" => fn_args.tsmp # None

\* C22: where the entry of SCAL is 0 the extractors divide the raw value by
\* 1.0 instead: nothing is divided by zero and the output equals the raw
\* value.
C22_ZeroScalMeansUnitScale ==
    StreamWithZeroScal => OutputIsRaw

\* from_gps5 under a SCAL of 0 returned a point with an infinite latitude
C22_ZeroScalDividesByZero ==
    /\ StreamWithZeroScal
    /\ fn_ret.fn = "from_gps5"
    /\ fn_ret.val # None
    /\ fn_ret.val.val.latitude = F64_INFINITY

\* the extractors under a SCAL that is there and has no 0: the output is the
\* raw value over the entry of SCAL, 1.0 for an entry SCAL does not have
ScaledOnNonZeroScal ==
    (/\ fn_ret # None
     /\ fn_args.scal # None
     /\ ~ScalIsZero
     /\ fn_ret.val # None) =>
        /\ fn_ret.fn = "from_gps5" =>
                fn_ret.val.val.latitude.kind = "finite"
        /\ fn_ret.fn = "from_gps9" =>
                \A n \in 1..Len(fn_args.gps9.val) :
                    fn_ret.val.val[n].latitude.kind = "finite"
        /\ fn_ret.fn = "SensorData::new" =>
                \A n \in 1..Len(fn_ret.val.val.fields) :
                    fn_ret.val.val.fields[n].x.kind = "finite"

\* the distinct CAME values the clips of the session of the call yield
SerialsYielded == {fn_args[i].val : i \in {j \in DOMAIN fn_args : fn_args[j].tag = "Ok"}}

\* C23: GoProSession::serial returns the one CAME value the clips share;
\* with more than one distinct value it returns the error InconsistentSerial
\* to the caller instead of crashing, and it does not crash either when no
\* clip yields a serial.
C23_SerialReturnsValueOrError ==
    fn_ret # None =>
        /\ fn_ret.val # Panic
        /\ Cardinality(SerialsYielded) = 1 =>
                (fn_ret.val.tag = "Return" /\ fn_ret.val.val \in SerialsYielded)
        /\ Cardinality(SerialsYielded) > 1 => fn_ret.val.tag = "Err"

\* the call on a session whose clips yield two serials panicked
C23_InconsistentSerialPanics ==
    /\ fn_ret # None
    /\ Cardinality(SerialsYielded) = 2
    /\ fn_ret.val = Panic

\* the call on a session none of whose clips yields a serial panicked
C23_NoSerialPanics ==
    /\ fn_ret # None
    /\ Len(fn_args) = 2
    /\ SerialsYielded = {}
    /\ fn_ret.val = Panic

\* the call on a session whose clips yield one serial returns it
SerialOfConsistentSession ==
    (fn_ret # None /\ Cardinality(SerialsYielded) = 1) =>
        (fn_ret.val.tag = "Return" /\ fn_ret.val.val \in SerialsYielded)

\* the tags of four bytes that from_slice knows by name
WellKnownTags ==
    {<<68, 69, 86, 67>>, <<83, 67, 65, 76>>, <<65, 67, 67, 76>>, <<65, 76, 76, 68>>}

\* a tag of four bytes was parsed and the result formatted
RoundTripDone ==
    /\ fn_ret # None
    /\ fn_ret.fn = "to_str"
    /\ Len(fn_args) = 4

\* C24: parsing a four-byte tag with FourCC::new / from_slice and formatting
\* the result with to_str gives back the same four bytes, for every
\* well-known code and for every tag that is neither well-known nor four
\* NUL bytes.
C24_FourCCRoundTrip ==
    (RoundTripDone /\ fn_args # <<0, 0, 0, 0>>) => fn_ret.val = fn_args

\* the round trip of the tag 0xA9 'A' 'C' 'D' gave six bytes
C24_LossyTagChanged ==
    /\ RoundTripDone
    /\ fn_args = <<169, 65, 67, 68>>
    /\ fn_ret.of.tag = "Other"
    /\ fn_ret.val = <<239, 191, 189, 65, 67, 68>>

\* the round trip of the tags that are well-known or ASCII
FourCCRoundTripOnAscii ==
    (/\ RoundTripDone
     /\ fn_args # <<0, 0, 0, 0>>
     /\ \A i \in 1..4 : fn_args[i] < 128) =>
        /\ fn_ret.val = fn_args
        /\ fn_args \in WellKnownTags <=> fn_ret.of.tag \notin {"Other", "Invalid"}

\* the round trip of a well-known tag went through its variant
C24_WellKnownRoundTrip ==
    /\ RoundTripDone
    /\ fn_args = <<83, 67, 65, 76>>
    /\ fn_ret.of = FourCC("SCAL")
    /\ fn_ret.val = fn_args

\* from_path has returned a session
FromPathOk ==
    /\ fn_ret # None
    /\ fn_ret.fn = "from_path"
    /\ fn_ret.val.tag = "Ok"

\* the fingerprints of the clips of the session from_path returned
ReturnedClips == {fn_ret.val.val[i].fingerprint : i \in DOMAIN fn_ret.val.val}

\* C25: GoProSession::from_path returns Ok(session) only when that session
\* contains the clip of video; when video cannot be read as a GoPro clip, or
\* no session contains it, the call returns an error and never an unrelated
\* session found under dir.
C25_FromPathReturnsSessionOfVideo ==
    FromPathOk =>
        /\ gopro_in_session # None
        /\ gopro_in_session.fingerprint \in ReturnedClips

\* video could not be read as a GoPro clip, and from_path returned a session
\* of clips found under dir
C25_UnreadableVideoGetsSession ==
    /\ FromPathOk
    /\ gopro_in_session = None
    /\ ReturnedClips # {}

\* video is a clip of a Hero 12 and from_path returned a session without it
C25_Hero12VideoGetsOtherSession ==
    /\ FromPathOk
    /\ gopro_in_session # None
    /\ gopro_in_session.device = "Hero12Black"
    /\ gopro_in_session.mp4 # None
    /\ gopro_in_session.mp4.val \in met
    /\ gopro_in_session.fingerprint \notin ReturnedClips

\* C25 where video is a clip of a Hero 7 that the walk met
FromPathOfHero7Video ==
    (/\ FromPathOk
     /\ gopro_in_session # None
     /\ gopro_in_session.device = "Hero7Black"
     /\ Path(gopro_in_session.fingerprint, "mp4") \in kept) =>
        gopro_in_session.fingerprint \in ReturnedClips

\* the streams of a list and of their children, depth first
RECURSIVE DepthFirst(_)
DepthFirst(streams) ==
    IF streams = <<>> THEN <<>>
    ELSE <<Head(streams)>>
            \o (IF Head(streams).tag = "Nested" THEN Head(streams).streams ELSE <<>>)
            \o DepthFirst(Tail(streams))

\* the positions, depth first, of the streams of the tree of the call that
\* have the FourCC looked for
FoundDepthFirst ==
    {i \in DOMAIN DepthFirst(fn_args.streams) :
        DepthFirst(fn_args.streams)[i].fourcc = fn_args.fourcc}

\* C26: Gpmf::find returns a stream with the FourCC whenever a stream of the
\* tree has it, at any depth, the first one in depth-first order, and returns
\* nothing only when no stream of the tree has the FourCC.
C26_FindIsDepthFirst ==
    fn_ret # None =>
        IF FoundDepthFirst = {} THEN fn_ret.val = None
        ELSE fn_ret.val = Some(DepthFirst(fn_args.streams)[FirstOf(FoundDepthFirst)])

\* find returned nothing for a FourCC that a child of the one top-level
\* stream has
C26_NestedStreamNotFound ==
    /\ fn_ret # None
    /\ Len(fn_args.streams) = 1
    /\ fn_args.streams[1].tag = "Nested"
    /\ fn_args.fourcc = "GPS5"
    /\ fn_args.streams[1].fourcc = "DEVC"
    /\ \E i \in DOMAIN fn_args.streams[1].streams :
            fn_args.streams[1].streams[i].fourcc = "GPS5"
    /\ fn_ret.val = None

\* find returned nothing for a FourCC that the second top-level stream has,
\* behind a stream of values
C26_BehindValuesNotFound ==
    /\ fn_ret # None
    /\ Len(fn_args.streams) = 2
    /\ fn_args.streams[1].tag = "Values"
    /\ fn_args.streams[1].fourcc # fn_args.fourcc
    /\ fn_args.streams[2].fourcc = fn_args.fourcc
    /\ fn_ret.val = None

\* what find returns is a top-level stream with the FourCC, with no such
\* stream before it
FindReturnsTopLevelStream ==
    (fn_ret # None /\ fn_ret.val # None) =>
        \E i \in DOMAIN fn_args.streams :
            /\ fn_ret.val = Some(fn_args.streams[i])
            /\ fn_args.streams[i].fourcc = fn_args.fourcc
            /\ \A j \in 1..(i - 1) : fn_args.streams[j].fourcc # fn_args.fourcc

\* C27: Gpmf::from_mp4_mpsc always finishes: on every track and under every
\* interleaving of its threads the receive loop ends and the call returns,
\* also when a thread fails to parse its sample and stops without sending.
C27_MpscAlwaysReturns == <>(mp4_ret # None)

\* every thread has ended, one of them without sending, and the receive loop
\* waits in rx.recv() on the empty channel for a message no thread will send
C27_ReceiverWaitsForever ==
    /\ mp4_ret = None
    /\ spawned = Len(track)
    /\ Running = {}
    /\ channel = <<>>
    /\ rx_count < Len(track)
    /\ \E k \in 1..Len(track) : ~Sound(track[k])

\* the call returns on the tracks whose samples all parse
MpscReturnsOnSoundTrack ==
    (\A k \in 1..Len(track) : Sound(track[k])) => <>(mp4_ret # None)

MergeErrorLeavesPaths ==
    (merge_ret # None /\ merge_ret.result # "Ok") =>
        /\ merge_ret.self.mp4 = merge_self.mp4
        /\ merge_ret.self.lrv = merge_self.lrv
        /\ merge_ret.result = "FingerprintMismatch" => merge_ret.self = merge_self

\* sessions_from_path with continue_on_error set and sessions_from_path_par
\* have both returned sessions for the same directory, files and anchor
BothReturned ==
    /\ continue_on_error
    /\ sessions_ret # None
    /\ sessions_ret.tag = "Ok"
    /\ par_ret # None

\* C29: for the same directory and the same anchor, on clips whose first
\* frames differ in time, sessions_from_path_par returns the same set of
\* sessions as sessions_from_path with continue_on_error set: the same
\* grouping, the same clip order, and for every clip the same path slots and
\* the same GUMI.
C29_ParSameSessions ==
    BothReturned /\ DistinctFirstFrames => SessionSet(par_ret) = SessionSet(sessions_ret)

\* without anchor, both calls returned one session of one clip with the same
\* two paths: sessions_from_path with the GUMI of the MP4,
\* sessions_from_path_par with the zero GUMI of the LRV
C29_ParKeepsZeroGumi ==
    /\ BothReturned
    /\ gopro_in_session = None
    /\ Len(sessions_ret.val) = 1
    /\ Len(par_ret.val) = 1
    /\ Len(sessions_ret.val[1]) = 1
    /\ Len(par_ret.val[1]) = 1
    /\ sessions_ret.val[1][1].mp4 # None
    /\ sessions_ret.val[1][1].lrv # None
    /\ par_ret.val[1][1].mp4 = sessions_ret.val[1][1].mp4
    /\ par_ret.val[1][1].lrv = sessions_ret.val[1][1].lrv
    /\ sessions_ret.val[1][1].gumi # GumiZero
    /\ par_ret.val[1][1].gumi = GumiZero

\* every clip of the directory has an MP4 of full resolution and an LRV with
\* the GUMI of the MP4
FullResolutionSameGumi ==
    \A c \in DOMAIN dir :
        /\ ~dir[c].lrv_zero
        /\ ~TupleLt(dir[c].resolution, GOPRO_MIN_WIDTH_HEIGHT)

\* the claim of C29 for the calls without anchor on directories of
\* full-resolution clips whose LRV has the GUMI of the MP4
ParSameSessionsWithoutAnchor ==
    gopro_in_session = None /\ FullResolutionSameGumi => C29_ParSameSessions

\* the anchor is a readable clip of the directory and
\* sessions_from_path_par returns more or fewer sessions than sessions_from_path
C29_AnchorSelectsOtherSessions ==
    /\ BothReturned
    /\ DistinctFirstFrames
    /\ FullResolutionSameGumi
    /\ gopro_in_session # None
    /\ Len(par_ret.val) # Len(sessions_ret.val)

\* a.cmp(b), a.partial_cmp(b) and a == b have returned
Compared ==
    /\ fn_ret.cmp # None
    /\ fn_ret.partial_cmp # None
    /\ fn_ret.eq # None

\* C30: for all timestamps a and b, a.cmp(b) is decided by relative alone,
\* a.cmp(b) is Equal exactly when a == b, and a.partial_cmp(b) is
\* Some(a.cmp(b)), also when a and b have the same relative and different
\* durations.
C30_OneTotalOrder ==
    Compared =>
        /\ fn_ret.cmp.val = Ordering(fn_args.self.relative, fn_args.other.relative)
        /\ (fn_ret.cmp.val = "Equal") = fn_ret.eq.val
        /\ fn_ret.partial_cmp.val = Some(fn_ret.cmp.val)

\* a and b have the same relative and a has the shorter duration: a.cmp(b)
\* is Equal, a == b is false and a.partial_cmp(b) is Some(Less)
C30_EqualButLess ==
    /\ Compared
    /\ fn_args.self.relative = fn_args.other.relative
    /\ fn_args.self.duration < fn_args.other.duration
    /\ fn_ret.cmp.val = "Equal"
    /\ ~fn_ret.eq.val
    /\ fn_ret.partial_cmp.val = Some("Less")

\* a.cmp(b) is decided by relative alone, and the three comparisons agree on
\* timestamps of different relative or of equal duration
CmpOnRelativeAndAgreeOffTies ==
    Compared =>
        /\ fn_ret.cmp.val = Ordering(fn_args.self.relative, fn_args.other.relative)
        /\ (fn_args.self.relative # fn_args.other.relative
            \/ fn_args.self.duration = fn_args.other.duration)
           => /\ (fn_ret.cmp.val = "Equal") = fn_ret.eq.val
              /\ fn_ret.partial_cmp.val = Some(fn_ret.cmp.val)

(***************************************************************************)
(* Specifications                                                          *)
(***************************************************************************)
notTsVars == <<gpmfVars, walkVars, mergeVars, logVars, mp4Vars, mpscVars, fnVars, prevVars, parVars>>
notGpmfVars == <<tsVars, walkVars, mergeVars, logVars, mp4Vars, mpscVars, fnVars, prevVars, parVars>>
notMergeVars == <<tsVars, gpmfVars, walkVars, logVars, mp4Vars, mpscVars, fnVars, prevVars, parVars>>
notWalkVars == <<tsVars, gpmfVars, mergeVars, mp4Vars, mpscVars, fnVars, prevVars, parVars>>
notMp4Vars == <<tsVars, gpmfVars, walkVars, mergeVars, logVars, fnVars, prevVars, parVars>>

IdleNotTs == IdleGpmf /\ IdleWalk /\ IdleMerge /\ IdleLog /\ IdleMp4 /\ IdleMpsc /\ IdleFn /\ IdlePrev /\ IdlePar
IdleNotGpmf == IdleTimestamp /\ IdleWalk /\ IdleMerge /\ IdleLog /\ IdleMp4 /\ IdleMpsc /\ IdleFn /\ IdlePrev /\ IdlePar
IdleNotMerge == IdleTimestamp /\ IdleGpmf /\ IdleWalk /\ IdleLog /\ IdleMp4 /\ IdleMpsc /\ IdleFn /\ IdlePrev /\ IdlePar
IdleNotWalk == IdleTimestamp /\ IdleGpmf /\ IdleMerge /\ IdleMp4 /\ IdleMpsc /\ IdleFn /\ IdlePrev /\ IdlePar
notFnVars == <<tsVars, gpmfVars, walkVars, mergeVars, logVars, mp4Vars, mpscVars, prevVars, parVars>>
IdleNotFn == IdleTimestamp /\ IdleGpmf /\ IdleWalk /\ IdleMerge /\ IdleLog /\ IdleMp4 /\ IdleMpsc /\ IdlePrev /\ IdlePar
IdleNotMp4 == IdleTimestamp /\ IdleGpmf /\ IdleWalk /\ IdleMerge /\ IdleLog /\ IdleFn /\ IdlePrev /\ IdlePar

NextTimestamp == CallAdd /\ UNCHANGED notTsVars

StartTimestamp == LET init == InitTimestamp /\ IdleNotTs IN init

SpecTimestamp == StartTimestamp /\ [][NextTimestamp]_vars

NextGpmf ==
    \/ GpmfCall /\ UNCHANGED notGpmfVars
    \/ GpmfCallErr /\ UNCHANGED notGpmfVars

StartGpmf == LET init == InitGpmf /\ IdleNotGpmf IN init

SpecGpmf == StartGpmf /\ [][NextGpmf]_vars

NextMerge == CallMerge /\ UNCHANGED notMergeVars

StartMerge == LET init == InitMerge /\ IdleNotMerge IN init

SpecMerge == StartMerge /\ [][NextMerge]_vars

NextWalk ==
    \/ WalkFile /\ UNCHANGED <<notWalkVars, logVars>>
    \/ WalkFileErr /\ UNCHANGED <<notWalkVars, logVars>>
    \/ Compile /\ UNCHANGED <<notWalkVars, logVars>>

\* a walk without anchor over two clips of any device
InitSessions ==
    InitWalk(2, ClipsOf(Devices, Ids, Ids, BOOLEAN, {GOPRO_MIN_WIDTH_HEIGHT}, {1}),
             {None}, {FALSE})

StartSessions == LET init == InitSessions /\ IdleLog /\ IdleNotWalk IN init

SpecSessions == StartSessions /\ [][NextWalk]_vars

\* a walk without anchor over three clips of a Hero 7, recorded at any times
InitSort ==
    InitWalk(3, ClipsOf({"Hero7Black"}, {1}, Ids, {FALSE}, {GOPRO_MIN_WIDTH_HEIGHT}, Times),
             {None}, {FALSE})

StartSort == LET init == InitSort /\ IdleLog /\ IdleNotWalk IN init

SpecSort == StartSort /\ [][NextWalk]_vars

\* a walk over two clips of any device, anchored on a file of the first
InitAnchor ==
    InitWalk(2, ClipsOf(Devices, Ids, Ids, BOOLEAN, {GOPRO_MIN_WIDTH_HEIGHT}, {1}),
             {Path(1, "mp4"), Path(1, "lrv")}, {FALSE})

StartAnchor == LET init == InitAnchor /\ IdleLog /\ IdleNotWalk IN init

SpecAnchor == StartAnchor /\ [][NextWalk]_vars

\* a walk over one clip of any device and resolution, with or without its
\* own files as the anchor, under any flags
InitPair ==
    InitWalk(1, ClipsOf(Devices, {1}, {1}, BOOLEAN, Resolutions, {1}),
             {None, Path(1, "mp4"), Path(1, "lrv")}, BOOLEAN)

StartPair == LET init == InitPair /\ IdleLog /\ IdleNotWalk IN init

SpecPair == StartPair /\ [][NextWalk]_vars

\* the step appends entry to the log of the walk
Log(entry) == Len(walk_log) < MaxLog /\ walk_log' = Append(walk_log, entry)

\* the walk, with every entry it handles logged
NextWalkLog ==
    \/ WalkFile /\ Log([kind |-> "File"]) /\ UNCHANGED notWalkVars
    \/ WalkEntryErr /\ Log([kind |-> "Unreadable"]) /\ UNCHANGED notWalkVars
    \/ \E err \in NewErrors :
          WalkFileErrOn(err) /\ Log([kind |-> "Rejected", err |-> err])
                             /\ UNCHANGED notWalkVars
    \/ Compile /\ UNCHANGED <<notWalkVars, logVars>>

\* a walk over one Hero 7 clip, under any flags
InitWalkLog ==
    InitWalk(1, ClipsOf({"Hero7Black"}, {1}, {1}, BOOLEAN, {GOPRO_MIN_WIDTH_HEIGHT}, {1}),
             {None}, BOOLEAN)

StartWalkLog == LET init == InitWalkLog /\ IdleLog /\ IdleNotWalk IN init

SpecWalkLog == StartWalkLog /\ [][NextWalkLog]_vars

\* Gpmf::from_mp4 on one MP4, with and without debug
NextMp4 ==
    \/ Mp4ReadErr /\ UNCHANGED <<notMp4Vars, mpscVars>>
    \/ Mp4ParseSample /\ UNCHANGED <<notMp4Vars, mpscVars>>
    \/ Mp4CollectErr /\ UNCHANGED <<notMp4Vars, mpscVars>>
    \/ Mp4Collect /\ UNCHANGED <<notMp4Vars, mpscVars>>

StartMp4 == LET init == InitTrack(BOOLEAN) /\ IdleMpsc /\ IdleNotMp4 IN init

SpecMp4 == StartMp4 /\ [][NextMp4]_vars

\* Gpmf::from_mp4_mpsc on one MP4
NextMpsc ==
    \/ MpscSpawn /\ UNCHANGED notMp4Vars
    \/ MpscReadErr /\ UNCHANGED notMp4Vars
    \/ MpscThreadSend /\ UNCHANGED notMp4Vars
    \/ MpscThreadPanic /\ UNCHANGED notMp4Vars
    \/ MpscRecv /\ UNCHANGED notMp4Vars
    \/ MpscReturn /\ UNCHANGED notMp4Vars

StartMpsc == LET init == InitTrack({FALSE}) /\ IdleMpsc /\ IdleNotMp4 IN init

SpecMpsc == StartMpsc /\ [][NextMpsc]_vars

\* Gps::prune and Gps::prune_mut on one log
NextPrune ==
    \/ CallPrune /\ UNCHANGED notFnVars
    \/ CallPruneMut /\ UNCHANGED notFnVars

StartPrune == LET init == InitPrune /\ IdleNotFn IN init

SpecPrune == StartPrune /\ [][NextPrune]_vars

\* Gps::t0 on one log
NextT0 ==
    \/ CallT0 /\ UNCHANGED notFnVars
    \/ CallT0Tail /\ UNCHANGED notFnVars

StartT0 == LET init == InitT0 /\ IdleNotFn IN init

SpecT0 == StartT0 /\ [][NextT0]_vars

\* GoProPoint::from_gps9 on one stream
NextGps9 == CallFromGps9 /\ UNCHANGED notFnVars

StartGps9 == LET init == InitGps9 /\ IdleNotFn IN init

SpecGps9 == StartGps9 /\ [][NextGps9]_vars

\* SensorData::new on one batch of rows
NextSensor == CallSensorData /\ UNCHANGED notFnVars

StartSensor == LET init == InitSensor /\ IdleNotFn IN init

SpecSensor == StartSensor /\ [][NextSensor]_vars

\* two calls of sessions_from_path, one after the other, on a directory of
\* two clips of a Hero 7 or a Hero 11, recorded at any times
NextTwice ==
    \/ WalkFile /\ UNCHANGED <<tsVars, gpmfVars, mergeVars, mp4Vars, mpscVars, fnVars,
                               logVars, prevVars, parVars>>
    \/ WalkFileErr /\ UNCHANGED <<tsVars, gpmfVars, mergeVars, mp4Vars, mpscVars, fnVars,
                                  logVars, prevVars, parVars>>
    \/ Compile /\ UNCHANGED <<tsVars, gpmfVars, mergeVars, mp4Vars, mpscVars, fnVars,
                              logVars, prevVars, parVars>>
    \/ CallAgain /\ UNCHANGED <<tsVars, gpmfVars, mergeVars, mp4Vars, mpscVars, fnVars,
                                logVars, parVars>>

InitTwice ==
    InitWalk(2, [device : {"Hero7Black", "Hero11Black"}, muid : {1}, gumi : {1},
                 lrv_zero : BOOLEAN, resolution : {GOPRO_MIN_WIDTH_HEIGHT},
                 creation_time : {1}, duration : {1}, time_first_frame : Times],
             {None}, {FALSE})

StartTwice == LET init == InitTwice /\ IdleLog /\ IdleNotWalk IN init

SpecTwice == StartTwice /\ [][NextTwice]_vars

\* the three extractors, each on a STRM with its data
NextExtract ==
    \/ ExtractGps5 /\ UNCHANGED notFnVars
    \/ ExtractGps9 /\ UNCHANGED notFnVars
    \/ ExtractSensor /\ UNCHANGED notFnVars

StartExtract == LET init == InitExtract /\ IdleNotFn IN init

SpecExtract == StartExtract /\ [][NextExtract]_vars

\* GoProSession::serial on one session
NextSerial == CallSerial /\ UNCHANGED notFnVars

StartSerial == LET init == InitSerial /\ IdleNotFn IN init

SpecSerial == StartSerial /\ [][NextSerial]_vars

\* FourCC::new on one cursor, then to_str on the result
NextFourCC ==
    \/ CallFourCCNew /\ UNCHANGED notFnVars
    \/ CallToStr /\ UNCHANGED notFnVars

StartFourCC == LET init == InitFourCC /\ IdleNotFn IN init

SpecFourCC == StartFourCC /\ [][NextFourCC]_vars

\* GoProSession::from_path: the walk of sessions_from_path over two clips of
\* a Hero 7 or a Hero 12, for a video that is the MP4 of the first clip or
\* cannot be read, and the return of from_path
NextFromPath ==
    \/ WalkFile /\ UNCHANGED <<notWalkVars, logVars>>
    \/ WalkFileErr /\ UNCHANGED <<notWalkVars, logVars>>
    \/ Compile /\ UNCHANGED <<notWalkVars, logVars>>
    \/ FromPathReturn /\ UNCHANGED <<notFnVars>>

InitFromPath ==
    InitWalk(2, ClipsOf({"Hero7Black", "Hero12Black"}, Ids, Ids, {FALSE},
                        {GOPRO_MIN_WIDTH_HEIGHT}, {1}),
             {None, Path(1, "mp4")}, {FALSE})

StartFromPath == LET init == InitFromPath /\ IdleLog /\ IdleNotWalk IN init

SpecFromPath == StartFromPath /\ [][NextFromPath]_vars

\* Gpmf::find on one tree
NextFind == CallFind /\ UNCHANGED notFnVars

StartFind == LET init == InitFind /\ IdleNotFn IN init

SpecFind == StartFind /\ [][NextFind]_vars

\* Gpmf::from_mp4_mpsc where the main thread and every spawned thread keep
\* running: a step that stays possible is taken; that a sample cannot be
\* read is left to the file
FairMpsc ==
    /\ WF_vars(MpscSpawn /\ UNCHANGED notMp4Vars)
    /\ WF_vars(MpscThreadSend /\ UNCHANGED notMp4Vars)
    /\ WF_vars(MpscThreadPanic /\ UNCHANGED notMp4Vars)
    /\ WF_vars(MpscRecv /\ UNCHANGED notMp4Vars)
    /\ WF_vars(MpscReturn /\ UNCHANGED notMp4Vars)

SpecMpscFair == StartMpsc /\ [][NextMpsc]_vars /\ FairMpsc

notWalkParVars == <<tsVars, gpmfVars, mergeVars, logVars, mp4Vars, mpscVars, fnVars, prevVars>>

\* sessions_from_path and sessions_from_path_par on the same directory
NextPar ==
    \/ BothWalkFile /\ UNCHANGED notWalkParVars
    \/ BothWalkFileErr /\ UNCHANGED notWalkParVars
    \/ Compile /\ UNCHANGED <<notWalkVars, logVars>>
    \/ ParCompile /\ UNCHANGED <<walkVars, notWalkParVars>>

InitPar ==
    /\ InitWalk(2, [device : {"Hero7Black", "Hero12Black"}, muid : Ids, gumi : {1},
                    lrv_zero : BOOLEAN, resolution : Resolutions,
                    creation_time : {1}, duration : {1}, time_first_frame : Times],
                {None, Path(1, "mp4")}, BOOLEAN)
    /\ verify_gpmf
    /\ par_hash2gopro = [c \in 1..2 |-> None]
    /\ par_ret = None

StartPar ==
    LET init == InitPar /\ IdleTimestamp /\ IdleGpmf /\ IdleMerge /\ IdleLog /\ IdleMp4
                /\ IdleMpsc /\ IdleFn /\ IdlePrev
    IN  init

SpecPar == StartPar /\ [][NextPar]_vars

\* the comparisons of two timestamps
NextCmp ==
    \/ CallCmp /\ UNCHANGED notFnVars
    \/ CallPartialCmp /\ UNCHANGED notFnVars
    \/ CallEq /\ UNCHANGED notFnVars

StartCmp == LET init == InitCmp /\ IdleNotFn IN init

SpecCmp == StartCmp /\ [][NextCmp]_vars

====
